---- MODULE Spec2Model ----
(***************************************************************************)
(* A model of the NMOS conformance-test engine: the generic crawler of     *)
(* GenericTest.py (basics / check_api_resource / save_subresources /       *)
(* check_response / validate_CORS / do_request).                           *)
(*                                                                         *)
(* Python strings are sequences of one-character strings, so that          *)
(* str.split, str.rstrip, str.startswith and str.replace are computed, not *)
(* assumed.  A path such as "/w/{i}" is held as the result of              *)
(* path.split("/"), that is << <<>>, <<"w">>, <<"{","i","}">> >>; the      *)
(* conversion between a path and its parts is a bijection because no part  *)
(* of a declared path holds a "/".                                         *)
(***************************************************************************)
EXTENDS Integers, Sequences, FiniteSets, TLC

VARIABLES
    apis,            \* self.apis: the API surfaces, in dict order
    saved_entities,  \* self.saved_entities: path -> list of harvested ids
    result,          \* self.result: the accumulated outcomes
    results,         \* basics(): its local list of outcomes
    pc,              \* position of the control flow of execute_tests
    api,             \* basics(): index of the API being crawled
    step,            \* basics(): index of the base-path check or of the resource
    frame,           \* check_api_resource(): its locals (test, url, response)
    ret,             \* the value check_api_resource is returning to basics
    requests,        \* every exchange made through do_request, in order
    observed,        \* path -> the ids seen in bodies of responses to a GET of path
    substituted,     \* every (collection path, identifier) substitution made
    call,            \* the arguments and result of a function applied on its own
    iut,             \* the answers of the implementation under test to IS0702Test
    is05_senders,    \* self.is05_senders: Connection API sender ids, in order
    is07_sources,    \* self.is07_sources: Events API sources, in dict order
    is04_sources,    \* self.is04_sources: Node API sources, in dict order
    is04_flows,      \* self.is04_flows: Node API flows, in dict order
    is04_senders,    \* self.is04_senders: Node API senders, in dict order
    transport_types, \* self.transport_types: sender id -> transport
    senders_active,  \* self.senders_active: sender id -> its /active response
    senders_to_test, \* self.senders_to_test: the senders joined to an event source
    sources_to_test, \* self.sources_to_test: the sources that join reaches
    connection_sources,     \* test_04: connection_uri -> the sources it serves
    websockets_no_health,   \* test_04: the workers that are sent no health command
    websockets_with_health, \* test_04: the workers that are sent the health command
    start_time,      \* test_04: time.time() when the workers were started
    now,             \* time.time(), in whole seconds
    health_command   \* test_04: the health command sent

\* The state of an IS0702Test object and of the implementation it tests.
suiteVars == <<iut, is05_senders, is07_sources, is04_sources, is04_flows,
               is04_senders, transport_types, senders_active, senders_to_test,
               sources_to_test>>

\* The state of test_04 and of the clock it reads.
sessionVars == <<connection_sources, websockets_no_health, websockets_with_health,
                 start_time, now, health_command>>

vars == <<apis, saved_entities, result, results, pc, api, step, frame, ret,
          requests, observed, substituted, call, suiteVars, sessionVars>>

\* ------------------------------------------------------------------ bounds

\* Longest JSON array a response body holds.
MaxBody == 2

\* Most keys by which an IUT departs from a well-formed one.
MaxDepartures == 2

\* Most messages a worker holds unread.
MaxMessages == 2

\* CONFIG.WS_MESSAGE_TIMEOUT: seconds the workers are given to open.
WS_MESSAGE_TIMEOUT == 1

\* "Number of seconds expected between heartbeats from IS-07 WebSocket
\* Receivers"
WS_HEARTBEAT_INTERVAL == 5

\* "Number of seconds without heartbeats before an IS-07 WebSocket Sender
\* closes a connection"
WS_TIMEOUT == 12

\* ----------------------------------------------------------------- strings

SLASH == "/"

\* A strip of one trailing "/" only.
rstrip_one(s) ==
    IF Len(s) > 0 /\ s[Len(s)] = SLASH THEN SubSeq(s, 1, Len(s) - 1) ELSE s

\* str.rstrip("/"): every trailing "/" is removed.
RECURSIVE rstrip(_)
rstrip(s) ==
    IF Len(s) > 0 /\ s[Len(s)] = SLASH THEN rstrip(SubSeq(s, 1, Len(s) - 1)) ELSE s

\* str.endswith("/")
endswith(s) == Len(s) > 0 /\ s[Len(s)] = SLASH

\* str.startswith("{")
startswith(part) == Len(part) > 0 /\ part[1] = "{"

\* "{" + name + "}"
Braced(name) == <<"{">> \o name \o <<"}">>

\* resource[0].replace("{" + name + "}", entity), on the parts of the path.
replace(parts, name, entity) ==
    [i \in 1..Len(parts) |-> IF parts[i] = Braced(name) THEN entity ELSE parts[i]]

\* ------------------------------------------------------------- JSON values

NoString == <<>>

DictEntry(hasId, id) == [t |-> "dict", hasId |-> hasId, id |-> id, s |-> NoString]
StrEntry(s) == [t |-> "str", hasId |-> FALSE, id |-> NoString, s |-> s]
NumEntry == [t |-> "num", hasId |-> FALSE, id |-> NoString, s |-> NoString]

\* The entries a list response is built from: objects with and without an
\* id, strings with one, two and no trailing separator, the bare separator,
\* and a number.
Entries ==
    { DictEntry(TRUE, <<"a">>), DictEntry(TRUE, <<"b">>), DictEntry(FALSE, NoString),
      StrEntry(<<"a", "/">>), StrEntry(<<"b", "/", "/">>), StrEntry(<<"c">>),
      StrEntry(<<"/">>), NumEntry }

Lists(S, n) == UNION { [1..k -> S] : k \in 0..n }

NotJSON == [json |-> FALSE, list |-> FALSE, items |-> <<>>]
JSONDict == [json |-> TRUE, list |-> FALSE, items |-> <<>>]
JSONList(items) == [json |-> TRUE, list |-> TRUE, items |-> items]

\* Response bodies: a body that is not JSON, a JSON object, and JSON arrays.
Bodies == {NotJSON, JSONDict} \cup { JSONList(l) : l \in Lists(Entries, MaxBody) }

\* ------------------------------------------------------------ HTTP boundary

ACAO == "Access-Control-Allow-Origin"
ACAH == "Access-Control-Allow-Headers"
ACAM == "Access-Control-Allow-Methods"
\* The header name validate_CORS tests for before it reads ACAM.
ACAMethod == "Access-Control-Allow-Method"

HeaderNames == {ACAO, ACAH, ACAMethod, ACAM}

\* A header value is the set of tokens it lists; Python's `method in value`
\* (a substring test on the header text) is membership of the token.
HeaderValues == { {"*"}, {"Content-Type"}, {"POST"}, {"Content-Type", "POST"} }

\* response.headers: header name -> value, for the headers present.
Headers == UNION { [H -> HeaderValues] : H \in SUBSET HeaderNames }

NoHeaders == [h \in {} |-> {"*"}]
OriginOnly == [h \in {ACAO} |-> {"*"}]

MutatingMethods == {"OPTIONS", "POST", "PUT", "PATCH", "DELETE"}

\* The methods handed to validate_CORS and check_response: the crawler
\* passes resource[1]['method'] as declared (lower case), check_base_path
\* passes 'GET', and the mutating branch is written for upper-case verbs.
Methods == {"get", "GET", "POST", "DELETE"}

Response(status_code, headers, body, conforms) ==
    [status_code |-> status_code, headers |-> headers, body |-> body,
     conforms |-> conforms]

\* The outcomes of requests' exceptions do_request distinguishes.
Faults == {"Timeout", "TooManyRedirects", "RequestException"}

\* ---------------------------------------------------------------- outcomes

\* Test(name) and its verdict methods (TestResult.Test).
Outcome(name, state, detail) == [name |-> name, state |-> state, detail |-> detail]

PASS(test) == Outcome(test, "Pass", "")
FAIL(test, detail) == Outcome(test, "Fail", detail)
MANUAL(test, detail) == Outcome(test, "Manual", detail)
NA(test, detail) == Outcome(test, "Not Applicable", detail)

\* An exception leaving the function in place of a returned outcome.
Raised(test, exception) == Outcome(test, "Raised", exception)

\* The return value None.
None == Outcome(<<>>, "None", "")

\* ------------------------------------------------------------ validate_CORS

validate_CORS(method, headers) ==
    IF ACAO \notin DOMAIN headers THEN "False"
    ELSE IF method \in MutatingMethods
    THEN IF ACAH \notin DOMAIN headers THEN "False"
         ELSE IF method \notin headers[ACAH] THEN "False"
         ELSE IF ACAMethod \notin DOMAIN headers THEN "False"
         ELSE IF ACAM \notin DOMAIN headers THEN "KeyError"
         ELSE IF method \notin headers[ACAM] THEN "False"
         ELSE "True"
    ELSE "True"

\* ----------------------------------------------------------- check_response

\* check_response parsing the body before it looks for the schema.
check_response_parse_first(test, schema, method, response) ==
    LET cors == validate_CORS(method, response.headers) IN
    IF cors = "KeyError" THEN Raised(test, "KeyError")
    ELSE IF cors = "False" THEN FAIL(test, "Incorrect CORS headers")
    ELSE IF ~response.body.json THEN FAIL(test, "Invalid JSON received")
    ELSE IF schema
    THEN IF ~response.conforms THEN FAIL(test, "Response schema validation error")
         ELSE PASS(test)
    ELSE MANUAL(test, "Test suite unable to locate schema")

\* schema is what Specification.get_schema returned: TRUE for a schema
\* document, FALSE for None.  response.conforms is jsonschema.validate's
\* verdict on the parsed body.
check_response(test, schema, method, response) ==
    LET cors == validate_CORS(method, response.headers) IN
    IF cors = "KeyError" THEN Raised(test, "KeyError")
    ELSE IF cors = "False" THEN FAIL(test, "Incorrect CORS headers")
    ELSE IF schema
    THEN IF ~response.body.json THEN FAIL(test, "Invalid JSON received")
         ELSE IF ~response.conforms THEN FAIL(test, "Response schema validation error")
         ELSE PASS(test)
    ELSE MANUAL(test, "Test suite unable to locate schema")

\* --------------------------------------------------------------- do_request

\* do_request returning the success flag from its Timeout handler.
do_request_flag(fault, response) ==
    IF fault = "Timeout"
    THEN [status |-> TRUE, text |-> "Connection timeout"]
    ELSE IF fault = "TooManyRedirects"
    THEN [status |-> FALSE, text |-> "Too many redirects"]
    ELSE IF fault = "RequestException"
    THEN [status |-> FALSE, text |-> "str(e)"]
    ELSE [status |-> TRUE, text |-> ""]

\* fault is the exception requests raises, or "None" when it answers.
do_request(fault, response) ==
    IF fault = "Timeout"
    THEN [status |-> FALSE, text |-> "Connection timeout"]
    ELSE IF fault = "TooManyRedirects"
    THEN [status |-> FALSE, text |-> "Too many redirects"]
    ELSE IF fault = "RequestException"
    THEN [status |-> FALSE, text |-> "str(e)"]
    ELSE [status |-> TRUE, text |-> ""]

\* --------------------------------------------------------- save_subresources

\* The list `subresources` built by the loop over response.json().
RECURSIVE subresources(_)
subresources(items) ==
    IF items = <<>> THEN <<>>
    ELSE LET entry == Head(items)
             rest == subresources(Tail(items))
         IN IF entry.t = "dict" /\ entry.hasId THEN <<entry.id>> \o rest
            ELSE IF entry.t = "str" /\ endswith(entry.s) THEN <<rstrip(entry.s)>> \o rest
            ELSE rest

\* save_subresources with `=` in both branches: a later harvest replaces
\* the entry.
save_subresources_overwrite(cache, path, response) ==
    LET sub == IF response.body.json /\ response.body.list
               THEN subresources(response.body.items) ELSE <<>>
    IN IF Len(sub) > 0
       THEN [k \in DOMAIN cache \cup {path} |-> IF k = path THEN sub ELSE cache[k]]
       ELSE cache

\* save_subresources with the new ids put before the ones already held.
save_subresources_prepend(cache, path, response) ==
    LET sub == IF response.body.json /\ response.body.list
               THEN subresources(response.body.items) ELSE <<>>
    IN IF Len(sub) > 0
       THEN IF path \notin DOMAIN cache
            THEN [k \in DOMAIN cache \cup {path} |-> IF k = path THEN sub ELSE cache[k]]
            ELSE [cache EXCEPT ![path] = sub \o cache[path]]
       ELSE cache

\* saved_entities after save_subresources(path, response).
save_subresources(cache, path, response) ==
    LET sub == IF response.body.json /\ response.body.list
               THEN subresources(response.body.items) ELSE <<>>
    IN IF Len(sub) > 0
       THEN IF path \notin DOMAIN cache
            THEN [k \in DOMAIN cache \cup {path} |-> IF k = path THEN sub ELSE cache[k]]
            ELSE [cache EXCEPT ![path] = cache[path] \o sub]
       ELSE cache

\* ------------------------------------------------------------ API surfaces

W == <<"w">>
P == <<"p">>
I == <<"i">>
J == <<"j">>
X == <<"x">>

Root == <<>>

\* "/w", "/w/{i}", "/w/{i}/p/{j}" and "/p", as path.split("/").
Widgets == <<Root, W>>
Widget == <<Root, W, Braced(I)>>
Part == <<Root, W, Braced(I), P, Braced(J)>>
Plain == <<Root, P>>

\* One entry of Specification.get_reads(): (path, {method, params, responses}),
\* with the schema Specification.get_schema finds for the 200 response.
Resource(path, params, responses, schema) ==
    [path |-> path, params |-> params, method |-> "get", responses |-> responses,
     schema |-> schema]

RWidgets == Resource(Widgets, <<>>, {200}, TRUE)
RWidget == Resource(Widget, <<I>>, {200, 404}, TRUE)
RPart == Resource(Part, <<I, J>>, {200}, TRUE)
RPlain == Resource(Plain, <<>>, {200}, FALSE)
RGone == Resource(Plain, <<>>, {404}, FALSE)

Api(name, resources) == [name |-> name, resources |-> resources]

\* The values of self.apis the crawler is run on.
Surfaces ==
    { << Api(<<"A">>, <<RWidgets, RWidget, RPart>>) >>,
      << Api(<<"A">>, <<RWidget, RWidgets, RGone>>) >>,
      << Api(<<"A">>, <<RPlain, RWidgets>>) >>,
      << Api(<<"A">>, <<RWidgets>>), Api(<<"B">>, <<RWidgets>>) >> }

\* The list entries the IUT answers the crawler with.
CrawlEntries == { DictEntry(TRUE, <<"a">>), StrEntry(<<"b", "/">>), StrEntry(<<"c">>) }

CrawlBodies == {NotJSON, JSONDict} \cup { JSONList(l) : l \in Lists(CrawlEntries, MaxBody) }

CrawlResponses ==
    { Response(200, h, b, c) :
        h \in {NoHeaders, OriginOnly}, b \in CrawlBodies, c \in BOOLEAN }
    \cup { Response(404, OriginOnly, JSONList(<<DictEntry(TRUE, <<"a">>)>>), TRUE) }

\* The answers of the IUT to a base-path request expecting `expectation`.
BaseResponses(expectation) ==
    { Response(200, OriginOnly, JSONList(<<StrEntry(expectation)>>), TRUE),
      Response(404, NoHeaders, NotJSON, FALSE) }

\* ---------------------------------------------------------- check_base_path

check_base_path(path, expectation, response) ==
    LET test == [method |-> "GET", api |-> <<>>, path |-> path] IN
    IF response.status_code # 200 THEN FAIL(test, "Incorrect response code")
    ELSE IF validate_CORS("GET", response.headers) # "True"
    THEN FAIL(test, "Incorrect CORS headers")
    ELSE IF ~response.body.json THEN FAIL(test, "Non-JSON response returned")
    ELSE IF ~response.body.list
            \/ ~(\E i \in 1..Len(response.body.items) :
                    response.body.items[i] = StrEntry(expectation))
    THEN FAIL(test, "Response is not an array containing")
    ELSE PASS(test)

\* The path and expectation of the n-th check_base_path call for an API.
BasePath(n, name) ==
    IF n = 1 THEN <<Root, Root>> ELSE IF n = 2 THEN <<Root, X>> ELSE <<Root, X, name>>

BaseExpectation(n, name) ==
    IF n = 1 THEN X \o <<SLASH>> ELSE IF n = 2 THEN name \o <<SLASH>>
    ELSE <<"v", SLASH>>

\* -------------------------------------------------------- check_api_resource

upper(method) == IF method = "get" THEN "GET" ELSE method

\* The index of the first part that starts with "{", or Len + 1.
RECURSIVE FirstParam(_, _)
FirstParam(parts, i) ==
    IF i > Len(parts) \/ startswith(parts[i]) THEN i ELSE FirstParam(parts, i + 1)

\* The local `path` of check_api_resource, as path.split("/"): "/" + part
\* for every non-empty part before the first parameter.
CollectionPath(parts) ==
    <<Root>> \o SelectSeq(SubSeq(parts, 1, FirstParam(parts, 1) - 1),
                          LAMBDA part : part # Root)

\* Test("{} /x-nmos/{}/{}{}".format(method.upper(), api, test_version, path))
Test(method, name, path) == [method |-> upper(method), api |-> name, path |-> path]

\* How check_api_resource classifies a resource.
Kind(resource) ==
    IF Len(resource.params) = 1 THEN "single"
    ELSE IF Len(resource.params) = 0 THEN "plain"
    ELSE "multi"

\* A crawler that substitutes the identifier in the middle of the entry.
EntityMiddle(cache, path) == cache[path][(Len(cache[path]) \div 2) + 1]

\* A crawler that substitutes the identifier harvested last.
EntityLast(cache, path) == cache[path][Len(cache[path])]

\* The identifier check_api_resource substitutes for the parameter.
Entity(cache, path) == cache[path][1]

\* A crawler that files what it harvests under the collection path.
SaveKeyCollection(resource) == CollectionPath(resource.path)

\* The key save_subresources is called with.
SaveKey(resource) == resource.path

\* A crawler that does not compare the status code.
StatusIgnored(response, response_code) == TRUE

\* `response.status_code != response_code` does not hold.
StatusMatches(response, response_code) == response.status_code = response_code

\* A crawler that passes over a parameterised path with no saved entity.
NoDataSkipped(test) == None

\* The outcome for a parameterised path with no saved entity.
NoData(test) == NA(test, "No resources found to perform this test")

\* ------------------------------------------------------------------- state

NoFrame == [test |-> Test("get", <<>>, <<>>), schema |-> FALSE, method |-> "get",
            response |-> Response(0, NoHeaders, NotJSON, FALSE)]

NoCall == [fn |-> "none"]

\* The ids a response body holds: the id of every object entry that has
\* one, and every string entry less one or more trailing separators.
IdsIn(body) ==
    IF body.json /\ body.list
    THEN { body.items[i].id : i \in { j \in 1..Len(body.items) :
                                        body.items[j].t = "dict" /\ body.items[j].hasId } }
         \cup UNION { { SubSeq(body.items[i].s, 1, n) :
                          n \in { m \in 0..(Len(body.items[i].s) - 1) :
                                    \A k \in (m + 1)..Len(body.items[i].s) :
                                        body.items[i].s[k] = SLASH } } :
                      i \in { j \in 1..Len(body.items) : body.items[j].t = "str" } }
    ELSE {}

\* The answers of an implementation that is not asked anything.
NoIUT == [kind |-> "none"]

\* An IS0702Test object before set_up_tests, for the runs that never reach it.
NoSuite ==
    /\ iut = NoIUT
    /\ is05_senders = <<>>
    /\ is07_sources = <<>>
    /\ is04_sources = <<>>
    /\ is04_flows = <<>>
    /\ is04_senders = <<>>
    /\ transport_types = <<>>
    /\ senders_active = <<>>
    /\ senders_to_test = <<>>
    /\ sources_to_test = <<>>

\* No worker, and the clock at the start of the run.
NoSessions ==
    /\ connection_sources = <<>>
    /\ websockets_no_health = <<>>
    /\ websockets_with_health = <<>>
    /\ start_time = 0
    /\ now = 0
    /\ health_command = [command |-> "none", timestamp |-> 0]

\* GenericTest.__init__: an empty cache and an empty result list.
Init ==
    /\ apis \in Surfaces
    /\ saved_entities = [k \in {} |-> <<>>]
    /\ result = <<>>
    /\ results = <<>>
    /\ pc = "idle"
    /\ api = 1
    /\ step = 1
    /\ frame = NoFrame
    /\ ret = None
    /\ requests = <<>>
    /\ observed = {}
    /\ substituted = {}
    /\ call = NoCall
    /\ NoSuite
    /\ NoSessions

\* The resource basics() is at.
Current == apis[api].resources[step]

\* basics(): on to the next check_base_path call, or to the loop over the
\* resources.
Advance ==
    /\ api' = api
    /\ step' = IF step < 3 THEN step + 1 ELSE 0

\* execute_tests() enters basics().
execute_tests ==
    /\ pc = "idle"
    /\ pc' = "base"
    /\ results' = <<>>
    /\ api' = 1
    /\ step' = 1
    /\ UNCHANGED <<apis, saved_entities, result, frame, ret, requests, observed,
                   substituted, call>>
    /\ UNCHANGED <<suiteVars, sessionVars>>

\* basics(): one of the three check_base_path calls made for every API.
\* requests.get is called outside any try: a transport fault leaves
\* execute_tests as an exception.
CheckBasePath ==
    /\ pc = "base"
    /\ \/ /\ pc' = "crashed"
          /\ UNCHANGED <<results, api, step>>
       \/ /\ \E response \in BaseResponses(BaseExpectation(step, apis[api].name)) :
                results' = Append(results,
                                  check_base_path(BasePath(step, apis[api].name),
                                                  BaseExpectation(step, apis[api].name),
                                                  response))
          /\ pc' = IF step < 3 THEN "base" ELSE "loop"
          /\ Advance
    /\ UNCHANGED <<apis, saved_entities, result, frame, ret, requests, observed,
                   substituted, call>>
    /\ UNCHANGED <<suiteVars, sessionVars>>

\* basics(): a resource that declares no 200 response is passed over.
SkipResource ==
    /\ pc = "resource"
    /\ 200 \notin Current.responses
    /\ pc' = "loop"
    /\ UNCHANGED <<apis, saved_entities, result, results, api, step, frame, ret,
                   requests, observed, substituted, call>>
    /\ UNCHANGED <<suiteVars, sessionVars>>

\* A check_api_resource that gathers the ids of the response before it
\* compares the status code.
RequestHarvestFirst(resource, test, url) ==
    \E fault \in Faults \cup {"None"}, response \in CrawlResponses :
        LET got == do_request(fault, response) IN
        /\ requests' = Append(requests,
                [api |-> apis[api].name, method |-> resource.method, url |-> url,
                 fault |-> fault,
                 status_code |-> IF fault = "None" THEN response.status_code ELSE 0])
        /\ IF ~got.status
           THEN /\ ret' = FAIL(test, got.text)
                /\ pc' = "returned"
                /\ UNCHANGED <<saved_entities, frame, observed>>
           ELSE /\ observed' = observed \cup
                        { <<resource.path, id>> : id \in IdsIn(response.body) }
                /\ saved_entities' =
                        save_subresources(saved_entities, SaveKey(resource), response)
                /\ IF ~StatusMatches(response, 200)
                   THEN /\ ret' = FAIL(test, "Incorrect response code")
                        /\ pc' = "returned"
                        /\ UNCHANGED frame
                   ELSE /\ frame' = [test |-> test, schema |-> resource.schema,
                                     method |-> resource.method, response |-> response]
                        /\ pc' = "validate"
                        /\ ret' = ret

\* check_api_resource(), from the request on: do_request, the status code,
\* save_subresources, and the call of check_response it ends with.
Request(resource, test, url) ==
    \E fault \in Faults \cup {"None"}, response \in CrawlResponses :
        LET got == do_request(fault, response) IN
        /\ requests' = Append(requests,
                [api |-> apis[api].name, method |-> resource.method, url |-> url,
                 fault |-> fault,
                 status_code |-> IF fault = "None" THEN response.status_code ELSE 0])
        /\ IF ~got.status
           THEN /\ ret' = FAIL(test, got.text)
                /\ pc' = "returned"
                /\ UNCHANGED <<saved_entities, frame, observed>>
           ELSE /\ observed' = observed \cup
                        { <<resource.path, id>> : id \in IdsIn(response.body) }
                /\ IF ~StatusMatches(response, 200)
                   THEN /\ ret' = FAIL(test, "Incorrect response code")
                        /\ pc' = "returned"
                        /\ UNCHANGED <<saved_entities, frame>>
                   ELSE /\ saved_entities' =
                                save_subresources(saved_entities, SaveKey(resource), response)
                        /\ frame' = [test |-> test, schema |-> resource.schema,
                                     method |-> resource.method, response |-> response]
                        /\ pc' = "validate"
                        /\ ret' = ret

\* check_api_resource(resource, 200, api), up to its call of check_response.
check_api_resource ==
    /\ pc = "resource"
    /\ 200 \in Current.responses
    /\ LET resource == Current
           path == CollectionPath(resource.path)
       IN \/ /\ Kind(resource) = "single"
             /\ path \in DOMAIN saved_entities
             /\ LET entity == Entity(saved_entities, path)
                    url_param == replace(resource.path, resource.params[1], entity)
                IN /\ substituted' = substituted \cup {<<path, entity>>}
                   /\ Request(resource, Test(resource.method, apis[api].name, url_param),
                              url_param)
          \/ /\ Kind(resource) = "single"
             /\ path \notin DOMAIN saved_entities
             /\ ret' = NoData(Test(resource.method, apis[api].name, resource.path))
             /\ pc' = "returned"
             /\ UNCHANGED <<saved_entities, frame, requests, observed, substituted>>
          \/ /\ Kind(resource) = "plain"
             /\ Request(resource, Test(resource.method, apis[api].name, resource.path),
                        resource.path)
             /\ UNCHANGED substituted
          \/ /\ Kind(resource) = "multi"
             /\ ret' = None
             /\ pc' = "returned"
             /\ UNCHANGED <<saved_entities, frame, requests, observed, substituted>>
    /\ UNCHANGED <<apis, result, results, api, step, call>>
    /\ UNCHANGED <<suiteVars, sessionVars>>

\* A check_response that harvests the ids of the body it validates.
CheckResponseHarvesting ==
    /\ pc = "validate"
    /\ ret' = check_response(frame.test, frame.schema, frame.method, frame.response)
    /\ pc' = IF ret'.state = "Raised" THEN "crashed" ELSE "returned"
    /\ saved_entities' = save_subresources(saved_entities, frame.test.path, frame.response)
    /\ UNCHANGED <<apis, result, results, api, step, frame, requests,
                   observed, substituted, call>>
    /\ UNCHANGED <<suiteVars, sessionVars>>

\* check_api_resource(): `return self.check_response(test, api, method, path,
\* response)`.
CheckResponse ==
    /\ pc = "validate"
    /\ ret' = check_response(frame.test, frame.schema, frame.method, frame.response)
    /\ pc' = IF ret'.state = "Raised" THEN "crashed" ELSE "returned"
    /\ UNCHANGED <<apis, saved_entities, result, results, api, step, frame, requests,
                   observed, substituted, call>>
    /\ UNCHANGED <<suiteVars, sessionVars>>

\* basics(): `if result is not None: results.append(result)`.
AppendResult ==
    /\ pc = "returned"
    /\ results' = IF ret # None THEN Append(results, ret) ELSE results
    /\ ret' = None
    /\ frame' = NoFrame
    /\ pc' = "loop"
    /\ UNCHANGED <<apis, saved_entities, result, api, step, requests,
                   observed, substituted, call>>
    /\ UNCHANGED <<suiteVars, sessionVars>>

\* basics(): the loops over the resources of an API and over the APIs.
NextResource ==
    /\ pc = "loop"
    /\ IF step < Len(apis[api].resources)
       THEN pc' = "resource" /\ api' = api /\ step' = step + 1
       ELSE IF api < Len(apis)
       THEN pc' = "base" /\ api' = api + 1 /\ step' = 1
       ELSE pc' = "return" /\ UNCHANGED <<api, step>>
    /\ UNCHANGED <<apis, saved_entities, result, results, frame, ret, requests,
                   observed, substituted, call>>
    /\ UNCHANGED <<suiteVars, sessionVars>>

\* execute_tests(): `self.result += self.basics()`; GenericTest itself
\* defines no test_ method.
Return ==
    /\ pc = "return"
    /\ result' = result \o results
    /\ pc' = "done"
    /\ UNCHANGED <<apis, saved_entities, results, api, step, frame, ret, requests,
                   observed, substituted, call>>
    /\ UNCHANGED <<suiteVars, sessionVars>>

Next ==
    \/ execute_tests
    \/ CheckBasePath
    \/ SkipResource
    \/ check_api_resource
    \/ CheckResponse
    \/ AppendResult
    \/ NextResource
    \/ Return

Spec == Init /\ [][Next]_vars

\* ------------------------------------------- save_subresources on its own

\* The caches save_subresources is applied to: empty, an entry for the
\* requested path, an entry for another path.
PriorCaches ==
    { [k \in {} |-> <<>>],
      [k \in {Widgets} |-> << <<"z">> >>],
      [k \in {Plain} |-> << <<"z">> >>] }

InitHarvest ==
    /\ apis \in { << Api(<<"A">>, <<RWidgets>>) >> }
    /\ saved_entities \in PriorCaches
    /\ result = <<>>
    /\ results = <<>>
    /\ pc = "call"
    /\ api = 1
    /\ step = 1
    /\ frame = NoFrame
    /\ ret = None
    /\ requests = <<>>
    /\ observed = {}
    /\ substituted = {}
    /\ call \in { [fn |-> "save_subresources", path |-> Widgets,
                   response |-> Response(200, OriginOnly, b, FALSE),
                   prior |-> saved_entities, out |-> "pending"] : b \in Bodies }
    /\ NoSuite
    /\ NoSessions

\* self.save_subresources(path, response)
SaveSubresources ==
    /\ pc = "call"
    /\ call.fn = "save_subresources"
    /\ call.out = "pending"
    /\ saved_entities' = save_subresources(saved_entities, call.path, call.response)
    /\ call' = [call EXCEPT !.out = "returned"]
    /\ UNCHANGED <<apis, result, results, pc, api, step, frame, ret, requests,
                   observed, substituted>>
    /\ UNCHANGED <<suiteVars, sessionVars>>

NextHarvest == SaveSubresources

SpecHarvest == InitHarvest /\ [][NextHarvest]_vars

\* ----------------------------------------------- validate_CORS on its own

InitCORS ==
    /\ apis \in { << Api(<<"A">>, <<RWidgets>>) >> }
    /\ saved_entities = [k \in {} |-> <<>>]
    /\ result = <<>>
    /\ results = <<>>
    /\ pc = "call"
    /\ api = 1
    /\ step = 1
    /\ frame = NoFrame
    /\ ret = None
    /\ requests = <<>>
    /\ observed = {}
    /\ substituted = {}
    /\ call \in { [fn |-> "validate_CORS", method |-> m, headers |-> h,
                   out |-> "pending"] : m \in Methods, h \in Headers }
    /\ NoSuite
    /\ NoSessions

\* self.validate_CORS(method, response)
ValidateCORS ==
    /\ pc = "call"
    /\ call.fn = "validate_CORS"
    /\ call.out = "pending"
    /\ call' = [call EXCEPT !.out = validate_CORS(call.method, call.headers)]
    /\ UNCHANGED <<apis, saved_entities, result, results, pc, api, step, frame, ret,
                   requests, observed, substituted>>
    /\ UNCHANGED <<suiteVars, sessionVars>>

NextCORS == ValidateCORS

SpecCORS == InitCORS /\ [][NextCORS]_vars

\* --------------------------------------------------- two crawls, one IUT

\* An IUT that does not change between two crawls: one answer to the
\* base-path requests and one answer for every URL under the base path.
SnapshotURLs ==
    {Widgets, Plain, <<Root, W, <<"a">>>>, <<Root, W, <<"b">>>>, <<Root, W, <<"c">>>>}

Answer(fault, response) == [fault |-> fault, response |-> response]

CollectionAnswers ==
    { Answer("None", Response(200, OriginOnly,
                              JSONList(<<DictEntry(TRUE, <<"a">>), StrEntry(<<"b", "/">>)>>),
                              TRUE)),
      Answer("None", Response(200, OriginOnly, JSONList(<<>>), TRUE)),
      Answer("None", Response(200, NoHeaders, JSONList(<<StrEntry(<<"c">>)>>), TRUE)),
      Answer("None", Response(404, OriginOnly,
                              JSONList(<<DictEntry(TRUE, <<"a">>)>>), TRUE)),
      Answer("Timeout", Response(404, OriginOnly,
                                 JSONList(<<DictEntry(TRUE, <<"a">>)>>), TRUE)) }

ItemAnswers ==
    { Answer("None", Response(200, OriginOnly, JSONDict, TRUE)),
      Answer("None", Response(404, OriginOnly,
                              JSONList(<<DictEntry(TRUE, <<"a">>)>>), TRUE)) }

Snapshots ==
    { [kind |-> "snapshot", base |-> b, answers |-> a] :
        b \in BOOLEAN,
        a \in { f \in [SnapshotURLs -> CollectionAnswers \cup ItemAnswers] :
                   /\ f[Widgets] \in CollectionAnswers
                   /\ \A u \in SnapshotURLs \ {Widgets} : f[u] \in ItemAnswers } }

\* The snapshot's answer to a base-path request.
SnapshotBase(expectation) ==
    IF iut.base THEN Response(200, OriginOnly, JSONList(<<StrEntry(expectation)>>), TRUE)
    ELSE Response(404, NoHeaders, NotJSON, FALSE)

\* The exchange made last is the one the snapshot holds for its URL.
Answered ==
    requests # <<>> =>
        LET exchange == requests[Len(requests)]
            answer == iut.answers[exchange.url]
        IN /\ exchange.fault = answer.fault
           /\ exchange.status_code =
                 (IF answer.fault = "None" THEN answer.response.status_code ELSE 0)
           /\ pc = "validate" => frame.response = answer.response

InitTwice ==
    /\ apis \in Surfaces
    /\ saved_entities = [k \in {} |-> <<>>]
    /\ result = <<>>
    /\ results = <<>>
    /\ pc = "idle"
    /\ api = 1
    /\ step = 1
    /\ frame = NoFrame
    /\ ret = None
    /\ requests = <<>>
    /\ observed = {}
    /\ substituted = {}
    /\ call = [fn |-> "run_tests", pass |-> 1]
    /\ iut \in Snapshots
    /\ is05_senders = <<>>
    /\ is07_sources = <<>>
    /\ is04_sources = <<>>
    /\ is04_flows = <<>>
    /\ is04_senders = <<>>
    /\ transport_types = <<>>
    /\ senders_active = <<>>
    /\ senders_to_test = <<>>
    /\ sources_to_test = <<>>
    /\ NoSessions

\* basics(): a check_base_path call, answered by the snapshot.
SnapshotBasePath ==
    /\ CheckBasePath
    /\ pc' # "crashed"
    /\ results'[Len(results')] =
          check_base_path(BasePath(step, apis[api].name),
                          BaseExpectation(step, apis[api].name),
                          SnapshotBase(BaseExpectation(step, apis[api].name)))

\* check_api_resource(), its request answered by the snapshot.
SnapshotResource ==
    /\ check_api_resource
    /\ Answered'

\* run_tests() is called on the object a second time.
RunAgain ==
    /\ pc = "done"
    /\ call.pass = 1
    /\ pc' = "idle"
    /\ call' = [call EXCEPT !.pass = 2]
    /\ UNCHANGED <<apis, saved_entities, result, results, api, step, frame, ret,
                   requests, observed, substituted, suiteVars, sessionVars>>

NextTwice ==
    \/ execute_tests
    \/ SnapshotBasePath
    \/ SkipResource
    \/ SnapshotResource
    \/ CheckResponse
    \/ AppendResult
    \/ NextResource
    \/ Return
    \/ RunAgain

SpecTwice == InitTwice /\ [][NextTwice]_vars

\* ------------------------------------- two APIs with one collection path

\* self.apis with two APIs that both declare "/w"; the second also declares
\* "/w/{i}" and "/w/{i}/p/{j}".
SharedSurface ==
    << Api(<<"A">>, <<RWidgets>>), Api(<<"B">>, <<RWidgets, RWidget, RPart>>) >>

InitShared ==
    /\ apis = SharedSurface
    /\ saved_entities = [k \in {} |-> <<>>]
    /\ result = <<>>
    /\ results = <<>>
    /\ pc = "idle"
    /\ api = 1
    /\ step = 1
    /\ frame = NoFrame
    /\ ret = None
    /\ requests = <<>>
    /\ observed = {}
    /\ substituted = {}
    /\ call = NoCall
    /\ NoSuite
    /\ NoSessions

\* basics(): a check_base_path call the IUT answers as expected.
SharedBasePath ==
    /\ CheckBasePath
    /\ pc' # "crashed"
    /\ results'[Len(results')].state = "Pass"

\* check_api_resource(), answered with the cross-origin header and, where
\* the status code is the declared one, a body of the response schema.
SharedResource ==
    /\ check_api_resource
    /\ pc' = "validate" =>
          /\ frame'.response.headers = OriginOnly
          /\ frame'.response.conforms

NextShared ==
    \/ execute_tests
    \/ SharedBasePath
    \/ SharedResource
    \/ CheckResponse
    \/ AppendResult
    \/ NextResource
    \/ Return

SpecShared == InitShared /\ [][NextShared]_vars

\* ------------------------------------------- IS-07-02: the answers of the IUT

\* A Python dict is a function from its keys; `k in d` is k \in DOMAIN d and
\* d[k] outside the domain is a KeyError.  A dict of resources keyed by id
\* (is04_senders, senders_to_test, ...) is the sequence of its values in
\* insertion order, every value holding its own "id".
Without(d, K) == [k \in DOMAIN d \ K |-> d[k]]

With(d, k, v) == [x \in DOMAIN d \cup {k} |-> IF x = k THEN v ELSE d[x]]

Keys(coll) == { coll[i]["id"] : i \in 1..Len(coll) }

Lookup(coll, id) == coll[CHOOSE i \in 1..Len(coll) : coll[i]["id"] = id]

\* dict[rec["id"]] = rec
Put(coll, rec) ==
    IF rec["id"] \in Keys(coll)
    THEN [i \in 1..Len(coll) |-> IF coll[i]["id"] = rec["id"] THEN rec ELSE coll[i]]
    ELSE Append(coll, rec)

Reverse(seq) == [i \in 1..Len(seq) |-> seq[Len(seq) + 1 - i]]

WS == "urn:x-nmos:transport:websocket"
MQTT == "urn:x-nmos:transport:mqtt"
RTP == "urn:x-nmos:transport:rtp"
DATA == "urn:x-nmos:format:data"
VIDEO == "urn:x-nmos:format:video"
APPJSON == "application/json"

\* JSON null, Python None, as a value held in a dict.
Null == "null"

\* self.apis[EVENTS_API_KEY]["version"]
EventsVersion == <<"v1.0">>

\* A broker_topic, as the parts "/" separates.
Topic(version, source) == <<"x-nmos", "events">> \o version \o <<"sources", source>>

\* The resources of a well-formed IUT: two senders on one device, each with
\* its flow, its source and the state of that source in the Events API.
N == {1, 2}
SenderId(n) == IF n = 1 THEN "s1" ELSE "s2"
FlowId(n) == IF n = 1 THEN "f1" ELSE "f2"
SourceId(n) == IF n = 1 THEN "src1" ELSE "src2"

BaseSender(kind, n) ==
    [k \in {"id", "flow_id", "transport", "device_id"} |->
        CASE k = "id" -> SenderId(n)
          [] k = "flow_id" -> FlowId(n)
          [] k = "transport" -> kind
          [] k = "device_id" -> "d1"]

BaseFlow(n) ==
    [k \in {"id", "source_id", "format", "media_type", "event_type"} |->
        CASE k = "id" -> FlowId(n)
          [] k = "source_id" -> SourceId(n)
          [] k = "format" -> DATA
          [] k = "media_type" -> APPJSON
          [] k = "event_type" -> "boolean"]

BaseSource(n) ==
    [k \in {"id", "format", "event_type"} |->
        CASE k = "id" -> SourceId(n)
          [] k = "format" -> DATA
          [] k = "event_type" -> "boolean"]

\* What the Events API holds for a source: whether it lists it, and the
\* event_type of its state.
BaseEvent(n) ==
    [k \in {"listed", "event_type"} |->
        IF k = "listed" THEN "true" ELSE "boolean"]

\* How the Connection API answers for a sender: whether it lists it, whether
\* GET single/senders/<id>/active is a valid exchange, the transport type it
\* reports, how many legs transport_params has, whether an activation
\* succeeds.
BaseAnswer(kind, n) ==
    [k \in {"listed", "valid", "transport", "legs", "activation"} |->
        CASE k = "transport" -> kind
          [] k = "legs" -> "1"
          [] OTHER -> "true"]

\* The body of the /active response, less the content of transport_params.
BaseActive(n) ==
    [k \in {"master_enable", "transport_params"} |->
        IF k = "master_enable" THEN "true" ELSE "legs"]

\* The first leg of transport_params.
BaseParams(kind, n) ==
    IF kind = WS
    THEN [k \in {"connection_uri", "connection_authorization",
                 "ext_is_07_source_id", "ext_is_07_rest_api_url"} |->
            CASE k = "connection_uri" -> "ws://a"
              [] k = "connection_authorization" -> "false"
              [] k = "ext_is_07_source_id" -> SourceId(n)
              [] k = "ext_is_07_rest_api_url" -> "http://a"]
    ELSE [k \in {"broker_topic", "connection_authorization",
                 "ext_is_07_rest_api_url"} |->
            CASE k = "broker_topic" -> Topic(EventsVersion, SourceId(n))
              [] k = "connection_authorization" -> "false"
              [] k = "ext_is_07_rest_api_url" -> "http://a"]

\* One departure of the IUT from the well-formed one: a key of one of its
\* dicts is missing or holds another value.
Edit(item, n, op, key, val) ==
    [item |-> item, n |-> n, op |-> op, key |-> key, val |-> val]

Del(item, n, key) == Edit(item, n, "del", key, <<>>)

Set(item, n, key, val) == Edit(item, n, "set", key, <<val>>)

\* The departures of sender n, of its flow and its source, and of what the
\* Events and Connection APIs hold for them.
EditsOf(kind, n) ==
        <<    Del("sender", n, "flow_id"), Del("sender", n, "transport"),
              Del("sender", n, "device_id"), Set("sender", n, "transport", RTP),
              Set("sender", n, "transport", IF kind = WS THEN MQTT ELSE WS),
              Set("sender", n, "device_id", "d2"), Set("sender", n, "flow_id", "f9"),
              Del("flow", n, "source_id"), Del("flow", n, "event_type"),
              Del("flow", n, "media_type"), Set("flow", n, "event_type", "number"),
              Set("flow", n, "format", VIDEO),
              Del("source", n, "event_type"), Del("source", n, "format"),
              Set("source", n, "event_type", "number"),
              Set("source", n, "format", VIDEO),
              Del("event", n, "event_type"), Set("event", n, "event_type", "number"),
              Set("event", n, "listed", "false"),
              Set("answer", n, "listed", "false"), Set("answer", n, "valid", "false"),
              Set("answer", n, "transport", RTP),
              Set("answer", n, "transport", IF kind = WS THEN MQTT ELSE WS),
              Set("answer", n, "legs", "0"), Set("answer", n, "activation", "false"),
              Set("active", n, "master_enable", "false"),
              Del("active", n, "master_enable"), Del("active", n, "transport_params"),
              Del("params", n, "connection_authorization"),
              Set("params", n, "connection_authorization", "true"),
              Del("params", n, "ext_is_07_rest_api_url"),
              Set("params", n, "ext_is_07_other", "x") >>
    \o   (IF kind = WS
          THEN       <<  Del("params", n, "connection_uri"),
                         Set("params", n, "connection_uri", Null),
                         Set("params", n, "connection_uri", "ws://b"),
                         Del("params", n, "ext_is_07_source_id"),
                         Set("params", n, "ext_is_07_source_id", "src9") >>
          ELSE       <<  Del("params", n, "broker_topic"),
                         Set("params", n, "broker_topic", <<"events", SourceId(n)>>),
                         Set("params", n, "broker_topic", Topic(EventsVersion, "src9")),
                         Set("params", n, "broker_topic", Topic(<<"v9">>, SourceId(n))),
                         Set("params", n, "ext_is_07_source_id", SourceId(n)) >>)

Edits(kind) ==
    EditsOf(kind, 1) \o EditsOf(kind, 2)
    \o << Set("order", 0, "senders", "reversed"), Set("order", 0, "events", "reversed"),
          Set("event", 0, "listed", "true"), Set("api", 0, "version", "v1.0") >>

\* Two departures made on the same key of the same dict.
Clash(d, e) == d.item = e.item /\ d.n = e.n /\ d.key = e.key

\* The ways to pick k of the departures E, as their positions in the order
\* of E, no two of them on the same key.
Picks(E, k) ==
    { f \in [1..k -> 1..Len(E)] :
        \A i, j \in 1..k : i < j => (f[i] < f[j] /\ ~Clash(E[f[i]], E[f[j]])) }

\* A dict after the departures D made on it.
Edited(base, item, n, D) ==
    LET mine == { e \in D : e.item = item /\ e.n = n }
        dels == { e.key : e \in { x \in mine : x.op = "del" } }
        sets == { x \in mine : x.op = "set" }
    IN [k \in (DOMAIN base \ dels) \cup { e.key : e \in sets } |->
          IF \E e \in sets : e.key = k
          THEN (CHOOSE e \in sets : e.key = k).val[1]
          ELSE base[k]]

NumOf(sender) == IF sender = "s1" THEN 1 ELSE 2

\* The IUT of the given transport kind after the departures D.
IUTOf(kind, D) ==
    LET sender(n) == Edited(BaseSender(kind, n), "sender", n, D)
        flow(n) == Edited(BaseFlow(n), "flow", n, D)
        source(n) == Edited(BaseSource(n), "source", n, D)
        event(n) == Edited(BaseEvent(n), "event", n, D)
        answer(n) == Edited(BaseAnswer(kind, n), "answer", n, D)
        params(n) == Edited(BaseParams(kind, n), "params", n, D)
        legs(n) == IF answer(n)["legs"] = "1" THEN <<params(n)>> ELSE <<>>
        active(n) ==
            LET a == Edited(BaseActive(n), "active", n, D)
            IN IF "transport_params" \in DOMAIN a
               THEN With(a, "transport_params", legs(n)) ELSE a
        state(n) ==
            [k \in {"id", "state"} |->
                IF k = "id" THEN SourceId(n) ELSE Without(event(n), {"listed"})]
        unknown ==
            [k \in {"id", "state"} |->
                IF k = "id" THEN "src9" ELSE Without(BaseEvent(1), {"listed"})]
        order(seq, what) ==
            IF Set("order", 0, what, "reversed") \in D THEN Reverse(seq) ELSE seq
        listed == SelectSeq(<<1, 2>>, LAMBDA n : answer(n)["listed"] = "true")
        stated == SelectSeq(<<1, 2>>, LAMBDA n : event(n)["listed"] = "true")
        ids == { SenderId(listed[i]) : i \in 1..Len(listed) }
    IN [kind |-> kind,
        senders |-> order(<<sender(1), sender(2)>>, "senders"),
        flows |-> <<flow(1), flow(2)>>,
        sources |-> <<source(1), source(2)>>,
        events |-> order([i \in 1..Len(stated) |-> state(stated[i])], "events")
                   \o (IF Set("event", 0, "listed", "true") \in D
                       THEN <<unknown>> ELSE <<>>),
        conn_senders |-> [i \in 1..Len(listed) |-> SenderId(listed[i])],
        conn_v1_1 |-> Set("api", 0, "version", "v1.0") \notin D,
        transports |-> [s \in ids |-> answer(NumOf(s))["transport"]],
        actives |-> [s \in ids |->
                        [valid |-> answer(NumOf(s))["valid"] = "true",
                         response |-> active(NumOf(s))]],
        activations |-> [s \in ids |->
                        [valid |-> answer(NumOf(s))["activation"] = "true",
                         response |-> With(active(NumOf(s)), "master_enable", "true")]]]

\* The implementations the suite is run against.
IUTs(kind, k) ==
    LET E == Edits(kind)
    IN { IUTOf(kind, { E[f[i]] : i \in 1..k }) : f \in Picks(E, k) }

\* ------------------------------------------------ IS-07-02: set_up_tests

\* An exception, and the state of a call that ended without one.
KeyError(key) == [exception |-> "KeyError", args |-> key]
IndexError == [exception |-> "IndexError", args |-> "list index out of range"]
NMOSTestException(outcome) == [exception |-> "NMOSTestException", args |-> outcome]
NoError == [exception |-> "None", args |-> ""]

\* set_up_tests(): the loop over self.is04_senders that joins every sender
\* to its flow and to the source of that flow.
RECURSIVE join_senders(_, _, _, _, _)
join_senders(senders, flows, sources, i, acc) ==
    IF i > Len(senders) THEN acc
    ELSE LET sender == senders[i] IN
         IF "flow_id" \notin DOMAIN sender
         THEN [acc EXCEPT !.raised = KeyError("flow_id")]
         ELSE LET flow == sender["flow_id"] IN
              IF flow \notin Keys(flows)
              THEN join_senders(senders, flows, sources, i + 1, acc)
              ELSE IF "source_id" \notin DOMAIN Lookup(flows, flow)
              THEN [acc EXCEPT !.raised = KeyError("source_id")]
              ELSE LET source == Lookup(flows, flow)["source_id"] IN
                   IF /\ source \in Keys(sources)
                      /\ "event_type" \in DOMAIN Lookup(sources, source)
                   THEN join_senders(senders, flows, sources, i + 1,
                            [acc EXCEPT
                               !.senders_to_test = Put(@, sender),
                               !.sources_to_test = Put(@, Lookup(sources, source))])
                   ELSE join_senders(senders, flows, sources, i + 1, acc)

\* set_up_tests(): the loop that keeps the /active response of every
\* Connection API sender.
RECURSIVE fetch_active(_, _, _, _)
fetch_active(senders, actives, i, acc) ==
    IF i > Len(senders) THEN acc
    ELSE LET sender == senders[i]
             valid == actives[sender].valid
             response == actives[sender].response
         IN IF ~valid \/ DOMAIN response = {}
            THEN fetch_active(senders, actives, i + 1, acc)
            ELSE IF "transport_params" \notin DOMAIN response
            THEN [acc EXCEPT !.raised = KeyError("transport_params")]
            ELSE IF Len(response["transport_params"]) = 0
            THEN [acc EXCEPT !.raised = IndexError]
            ELSE fetch_active(senders, actives, i + 1,
                     [acc EXCEPT !.senders_active = With(@, sender, response)])

\* set_up_tests(): what it leaves in the object, and the exception it ends
\* with if any.
set_up_tests(u) ==
    LET joined == join_senders(u.senders, u.flows, u.sources, 1,
                      [raised |-> NoError, senders_to_test |-> <<>>,
                       sources_to_test |-> <<>>, transport_types |-> <<>>,
                       senders_active |-> <<>>])
        types == [s \in { u.conn_senders[i] : i \in 1..Len(u.conn_senders) } |->
                     IF u.conn_v1_1 THEN u.transports[s] ELSE RTP]
    IN IF joined.raised.exception # "None" THEN joined
       ELSE fetch_active(u.conn_senders, u.actives, 1,
                         [joined EXCEPT !.transport_types = types])

\* --------------------------------------------------- IS-07-02: the tests

\* The Test object handed to a test method.
TestCase(method_name) == [method |-> method_name, api |-> <<>>, path |-> <<>>]

\* A message and the resource it is formatted with.
Msg(text, about) == [text |-> text, about |-> about, key |-> ""]

\* The message of a FAIL made of a KeyError.
MissingKey(text, about, key) == [text |-> text, about |-> about, key |-> key]

UNCLEAR(test, detail) == Outcome(test, "Could Not Test", detail)
WARNING(test, detail) == Outcome(test, "Warning", detail)

NoResources == Msg("Not tested. No resources found.", "")

\* param.startswith("ext_"), over the parameter names an IUT uses.
startswith_ext(param) ==
    param \in {"ext_is_07_source_id", "ext_is_07_rest_api_url", "ext_is_07_other"}

ext_params_websocket == {"ext_is_07_source_id", "ext_is_07_rest_api_url"}
ext_params_mqtt == {"ext_is_07_rest_api_url"}

\* A test_01 that asks for no ext parameter but those of the transport.
ext_params_subset(self, sender) ==
    LET params == { p \in DOMAIN self.senders_active[sender]["transport_params"][1] :
                      startswith_ext(p) }
    IN IF self.transport_types[sender] = WS THEN params \subseteq ext_params_websocket
       ELSE IF self.transport_types[sender] = MQTT THEN params \subseteq ext_params_mqtt
       ELSE FALSE

\* test_01: valid_params, sorted(params) == sorted(ext_params_...).
valid_params(self, sender) ==
    LET params == { p \in DOMAIN self.senders_active[sender]["transport_params"][1] :
                      startswith_ext(p) }
    IN IF self.transport_types[sender] = WS THEN params = ext_params_websocket
       ELSE IF self.transport_types[sender] = MQTT THEN params = ext_params_mqtt
       ELSE FALSE

RECURSIVE test_01_senders(_, _, _)
test_01_senders(self, test, i) ==
    IF i > Len(self.senders_to_test) THEN PASS(test)
    ELSE LET sender == self.senders_to_test[i]["id"] IN
         IF sender \in DOMAIN self.senders_active
         THEN IF ~valid_params(self, sender)
              THEN FAIL(test, Msg("Missing required ext parameters for Sender {}",
                                  sender))
              ELSE test_01_senders(self, test, i + 1)
         ELSE FAIL(test, Msg("Sender {} not found in Connection API", sender))

\* test_01: "Each IS-05 Sender has the required ext parameters".
test_01(self, test) ==
    IF Len(self.senders_to_test) > 0
    THEN test_01_senders(self, test, 1)
    ELSE UNCLEAR(test, NoResources)

\* The senders under test whose flow is a known flow of source_id, in the
\* order of senders_to_test: the join test_02, test_03 and
\* get_websocket_connection_sources all make.
SendersOf(self, source_id) ==
    SelectSeq(self.senders_to_test,
              LAMBDA s : /\ s["flow_id"] \in Keys(self.is04_flows)
                         /\ source_id = Lookup(self.is04_flows, s["flow_id"])["source_id"])

\* re.search("^x-nmos/events/(.+)/sources/(.+)$", broker_topic): both groups
\* are greedy, so the first ends at the last "sources" part that leaves one
\* part or more after it.
TopicSearch(topic) ==
    LET at == { j \in 4..(Len(topic) - 1) : topic[j] = "sources" } IN
    IF Len(topic) >= 5 /\ topic[1] = "x-nmos" /\ topic[2] = "events" /\ at # {}
    THEN LET j == CHOOSE x \in at : \A y \in at : y <= x
         IN [found |-> TRUE, group1 |-> SubSeq(topic, 3, j - 1),
             group2 |-> SubSeq(topic, j + 1, Len(topic))]
    ELSE [found |-> FALSE, group1 |-> <<>>, group2 |-> <<>>]

\* test_02: the checks made of one source of the Events API.  `fail` holds
\* the outcome returned, or None when the loop goes on; `warn` holds the
\* warning the source sets, or "" when it sets none.
Continue(warn) == [stop |-> FALSE, fail |-> None, warn |-> warn]

Stop(outcome) == [stop |-> TRUE, fail |-> outcome, warn |-> ""]

test_02_sender(self, test, source_id, found_sender) ==
    IF found_sender["id"] \notin DOMAIN self.senders_active
    THEN Stop(FAIL(test, Msg("Source {} has no associated IS-05 sender", source_id)))
    ELSE LET params == self.senders_active[found_sender["id"]]["transport_params"][1]
             missing(key) ==
                 Stop(FAIL(test, MissingKey("Sender {} parameters do not contain expected key: {}",
                                            found_sender["id"], key)))
         IN IF "transport" \notin DOMAIN found_sender THEN missing("transport")
            ELSE IF found_sender["transport"] = WS
            THEN IF "ext_is_07_source_id" \notin DOMAIN params
                 THEN missing("ext_is_07_source_id")
                 ELSE IF params["ext_is_07_source_id"] # source_id
                 THEN Stop(FAIL(test, Msg("IS-05 sender {} does not indicate the correct 'ext_is_07_source_id'",
                                          found_sender["id"])))
                 ELSE Continue("")
            ELSE IF found_sender["transport"] = MQTT
            THEN IF "broker_topic" \notin DOMAIN params THEN missing("broker_topic")
                 ELSE LET topic == TopicSearch(params["broker_topic"]) IN
                      IF ~topic.found
                      THEN Continue("does not follow the recommended convention in 'broker_topic'")
                      ELSE IF topic.group2 # <<source_id>>
                      THEN Continue("does not indicate the correct source in 'broker_topic'")
                      ELSE IF topic.group1 # EventsVersion
                      THEN Continue("does not indicate the correct API version in 'broker_topic'")
                      ELSE Continue("")
            ELSE Stop(FAIL(test, Msg("IS-05 sender {} has an unsupported transport",
                                     found_sender["id"])))

test_02_flow(self, test, source_id, found_source, found_sender) ==
    LET found_flow == Lookup(self.is04_flows, found_sender["flow_id"])
        missing(key) ==
            Stop(FAIL(test, MissingKey("Flow {} does not contain expected key: {}",
                                       found_flow["id"], key)))
    IN IF "format" \notin DOMAIN found_flow THEN missing("format")
       ELSE IF found_flow["format"] # DATA
       THEN Stop(FAIL(test, Msg("Flow {} specifies an unsupported format",
                                found_flow["id"])))
       ELSE IF "media_type" \notin DOMAIN found_flow THEN missing("media_type")
       ELSE IF found_flow["media_type"] # APPJSON
       THEN Stop(FAIL(test, Msg("Flow {} does not specify media_type 'application/json'",
                                found_flow["id"])))
       ELSE IF "event_type" \notin DOMAIN found_flow THEN missing("event_type")
       ELSE IF found_flow["event_type"] # found_source["event_type"]
       THEN Stop(FAIL(test, Msg("Flow {} specifies a different event_type to the Source",
                                found_flow["id"])))
       ELSE test_02_sender(self, test, source_id, found_sender)

test_02_source(self, test, source_id) ==
    IF source_id \notin Keys(self.sources_to_test)
    THEN Stop(FAIL(test, Msg("Source {} not found in Node API", source_id)))
    ELSE LET found_source == Lookup(self.sources_to_test, source_id)
             state == Lookup(self.is07_sources, source_id)["state"]
             missing(key) ==
                 Stop(FAIL(test, MissingKey("Source {} does not contain expected key: {}",
                                            found_source["id"], key)))
             senders == SendersOf(self, source_id)
         IN IF "format" \notin DOMAIN found_source THEN missing("format")
            ELSE IF found_source["format"] # DATA
            THEN Stop(FAIL(test, Msg("Source {} specifies an unsupported format in IS-04",
                                     found_source["id"])))
            ELSE IF "event_type" \notin DOMAIN state THEN missing("event_type")
            ELSE IF found_source["event_type"] # state["event_type"]
            THEN Stop(FAIL(test, Msg("Source {} specifies a different event_type in IS-04",
                                     found_source["id"])))
            ELSE IF senders = <<>>
            THEN Stop(FAIL(test, Msg("Source {} has no associated IS-04 sender",
                                     source_id)))
            ELSE test_02_flow(self, test, source_id, found_source, senders[1])

\* A test_02 that looks at the first source of the Events API only.
test_02_first(self, test, i, warn_message) ==
    LET checked == test_02_source(self, test, self.is07_sources[1]["id"]) IN
    IF checked.stop THEN checked.fail ELSE PASS(test)

\* A test_02 that returns the warning of a source as soon as it is set.
RECURSIVE test_02_warns_at_once(_, _, _, _)
test_02_warns_at_once(self, test, i, warn_message) ==
    IF warn_message # ""
    THEN WARNING(test, Msg(warn_message, "5.1._Transport_-_MQTT.html#32-broker_topic"))
    ELSE IF i > Len(self.is07_sources) THEN PASS(test)
    ELSE LET checked == test_02_source(self, test, self.is07_sources[i]["id"]) IN
         IF checked.stop THEN checked.fail
         ELSE test_02_warns_at_once(self, test, i + 1, checked.warn)

\* test_02: the loop over the sources of the Events API.
RECURSIVE test_02_sources(_, _, _, _)
test_02_sources(self, test, i, warn_message) ==
    IF i > Len(self.is07_sources)
    THEN IF warn_message # ""
         THEN WARNING(test, Msg(warn_message, "5.1._Transport_-_MQTT.html#32-broker_topic"))
         ELSE PASS(test)
    ELSE LET checked == test_02_source(self, test, self.is07_sources[i]["id"]) IN
         IF checked.stop THEN checked.fail
         ELSE test_02_sources(self, test, i + 1,
                  IF checked.warn # "" THEN checked.warn ELSE warn_message)

\* test_02: "Each IS-07 Source has corresponding resources in IS-04 and
\* IS-05".
test_02(self, test) ==
    IF Len(self.is07_sources) > 0
    THEN test_02_sources(self, test, 1, "")
    ELSE UNCLEAR(test, NoResources)

\* test_03 and get_websocket_connection_sources: for every source of the
\* Events API that is under test, in order, the senders joined to it.
RECURSIVE Candidates(_, _)
Candidates(self, i) ==
    IF i > Len(self.is07_sources) THEN <<>>
    ELSE LET source_id == self.is07_sources[i]["id"] IN
         (IF source_id \in Keys(self.sources_to_test)
          THEN [j \in 1..Len(SendersOf(self, source_id)) |->
                   [source_id |-> source_id, sender |-> SendersOf(self, source_id)[j]]]
          ELSE <<>>) \o Candidates(self, i + 1)

\* test_03: senders_by_device, as the sequence of its devices in insertion
\* order, each with its senders_dict.
RECURSIVE group_by_device(_, _, _)
group_by_device(cands, i, acc) ==
    IF i > Len(cands) THEN acc
    ELSE LET found_sender == cands[i].sender IN
         IF "transport" \notin DOMAIN found_sender
         THEN [acc EXCEPT !.raised = KeyError("transport")]
         ELSE IF found_sender["transport"] # WS
         THEN group_by_device(cands, i + 1, acc)
         ELSE IF "device_id" \notin DOMAIN found_sender
         THEN [acc EXCEPT !.raised = KeyError("device_id")]
         ELSE LET device_id == found_sender["device_id"]
                  senders_dict ==
                      IF device_id \notin Keys(acc.senders_by_device) THEN <<>>
                      ELSE Lookup(acc.senders_by_device, device_id).senders
              IN group_by_device(cands, i + 1,
                     [acc EXCEPT !.senders_by_device =
                         Put(@, [id |-> device_id,
                                 senders |-> Put(senders_dict, found_sender)])])

\* test_03: `if device_connection_uri is None: ... else: if
\* device_connection_uri != sender_connection_uri`, the value kept for the
\* device being None until a sender sets it.
differs(device_value, sender_value) ==
    IF device_value = Null THEN FALSE ELSE device_value # sender_value

\* test_03: the loop over the senders of one device.
RECURSIVE test_03_senders(_, _, _, _, _, _, _)
test_03_senders(self, test, senders_dict, j, uri, authorization, source_id) ==
    IF j > Len(senders_dict) THEN Continue("")
    ELSE LET found_sender == senders_dict[j] IN
         IF found_sender["id"] \notin DOMAIN self.senders_active
         THEN Stop(FAIL(test, Msg("Source {} has no associated IS-05 sender", source_id)))
         ELSE LET params == self.senders_active[found_sender["id"]]["transport_params"][1]
                  missing(key) ==
                      Stop(FAIL(test, MissingKey("Sender {} parameters do not contain expected key: {}",
                                                 found_sender["id"], key)))
              IN IF "connection_uri" \notin DOMAIN params THEN missing("connection_uri")
                 ELSE IF "connection_authorization" \notin DOMAIN params
                 THEN missing("connection_authorization")
                 ELSE IF differs(uri, params["connection_uri"])
                 THEN Stop(FAIL(test, Msg("Sender {} does not have the same connection_uri parameter within the same device",
                                          found_sender["id"])))
                 ELSE IF differs(authorization, params["connection_authorization"])
                 THEN Stop(FAIL(test, Msg("Sender {} does not have the same connection_authorization parameter within the same device",
                                          found_sender["id"])))
                 ELSE test_03_senders(self, test, senders_dict, j + 1,
                          IF uri = Null THEN params["connection_uri"] ELSE uri,
                          IF authorization = Null
                          THEN params["connection_authorization"] ELSE authorization,
                          source_id)

\* test_03: the loop over the devices; found_senders is set by the first
\* sender looked at.
RECURSIVE test_03_devices(_, _, _, _, _, _)
test_03_devices(self, test, senders_by_device, d, found_senders, source_id) ==
    IF d > Len(senders_by_device)
    THEN IF found_senders THEN PASS(test)
         ELSE UNCLEAR(test, Msg("Not tested. No WebSocket sender resources found.", ""))
    ELSE LET checked == test_03_senders(self, test, senders_by_device[d].senders, 1,
                                        Null, Null, source_id)
         IN IF checked.stop THEN checked.fail
            ELSE test_03_devices(self, test, senders_by_device, d + 1,
                     found_senders \/ Len(senders_by_device[d].senders) > 0, source_id)

\* test_03: "WebSocket senders on the same device have the same
\* connection_uri and connection_authorization parameters".
test_03(self, test) ==
    IF Len(self.is07_sources) > 0
    THEN LET grouped == group_by_device(Candidates(self, 1), 1,
                            [raised |-> NoError, senders_by_device |-> <<>>])
             source_id == self.is07_sources[Len(self.is07_sources)]["id"]
         IN IF grouped.raised.exception # "None"
            THEN Raised(test, grouped.raised)
            ELSE test_03_devices(self, test, grouped.senders_by_device, 1, FALSE,
                                 source_id)
    ELSE UNCLEAR(test, NoResources)

\* `not x` for a value of a JSON body.
Falsy(value) == value \in {"false", Null}

\* get_websocket_connection_sources(): the loop over the joined senders.
\* connection_sources is the sequence of its keys in insertion order, each
\* with its list of sources.
RECURSIVE connection_loop(_, _, _, _, _)
connection_loop(u, test, cands, i, acc) ==
    IF i > Len(cands) THEN acc
    ELSE LET source_id == cands[i].source_id
             found_sender == cands[i].sender
             sender_id == found_sender["id"]
         IN IF "transport" \notin DOMAIN found_sender
            THEN [acc EXCEPT !.raised = KeyError("transport")]
            ELSE IF found_sender["transport"] # WS \/ sender_id \notin DOMAIN acc.senders_active
            THEN connection_loop(u, test, cands, i + 1, acc)
            ELSE IF "master_enable" \notin DOMAIN acc.senders_active[sender_id]
            THEN [acc EXCEPT !.raised = KeyError("master_enable")]
            ELSE LET activate == Falsy(acc.senders_active[sender_id]["master_enable"])
                     active == IF activate /\ u.activations[sender_id].valid
                               THEN With(acc.senders_active, sender_id,
                                         u.activations[sender_id].response)
                               ELSE acc.senders_active
                     activated == [acc EXCEPT !.senders_active = active,
                                              !.activations = IF activate
                                                              THEN Append(@, sender_id) ELSE @]
                 IN IF activate /\ ~u.activations[sender_id].valid
                    THEN [activated EXCEPT !.raised =
                             NMOSTestException(FAIL(test, Msg("activation failed", sender_id)))]
                    ELSE IF "transport_params" \notin DOMAIN active[sender_id]
                    THEN [activated EXCEPT !.raised = KeyError("transport_params")]
                    ELSE IF Len(active[sender_id]["transport_params"]) = 0
                    THEN [activated EXCEPT !.raised = IndexError]
                    ELSE LET params == active[sender_id]["transport_params"][1] IN
                         IF "connection_uri" \notin DOMAIN params
                         THEN [activated EXCEPT !.raised =
                                  NMOSTestException(FAIL(test,
                                      Msg("Sender {} has no connection_uri parameter",
                                          sender_id)))]
                         ELSE LET connection_uri == params["connection_uri"]
                                  sources ==
                                      IF connection_uri \notin Keys(acc.connection_sources)
                                      THEN <<source_id>>
                                      ELSE Append(Lookup(acc.connection_sources,
                                                         connection_uri).sources, source_id)
                              IN connection_loop(u, test, cands, i + 1,
                                     [activated EXCEPT !.connection_sources =
                                         Put(@, [id |-> connection_uri,
                                                 sources |-> sources])])

\* get_websocket_connection_sources(test): "Returns a dictionary of
\* WebSocket sources available for connection".
get_websocket_connection_sources(self, u, test) ==
    connection_loop(u, test,
                    IF Len(self.is07_sources) > 0 THEN Candidates(self, 1) ELSE <<>>, 1,
                    [raised |-> NoError, connection_sources |-> <<>>,
                     senders_active |-> self.senders_active, activations |-> <<>>])

\* ------------------------------------------------ IS-07-02: the test run

\* The object as the test methods read it.
Self ==
    [is07_sources |-> is07_sources, is04_flows |-> is04_flows,
     transport_types |-> transport_types, senders_active |-> senders_active,
     senders_to_test |-> senders_to_test, sources_to_test |-> sources_to_test]

\* An IS0702Test object before set_up_tests; the crawl of basics() is left
\* to Spec and the run is followed from set_up_tests on.
InitRun ==
    /\ apis = <<>>
    /\ saved_entities = [k \in {} |-> <<>>]
    /\ result = <<>>
    /\ results = <<>>
    /\ pc = "set_up"
    /\ api = 1
    /\ step = 1
    /\ frame = NoFrame
    /\ ret = None
    /\ requests = <<>>
    /\ observed = {}
    /\ substituted = {}
    /\ call = NoCall
    /\ is05_senders = <<>>
    /\ is07_sources = <<>>
    /\ is04_sources = <<>>
    /\ is04_flows = <<>>
    /\ is04_senders = <<>>
    /\ transport_types = <<>>
    /\ senders_active = <<>>
    /\ senders_to_test = <<>>
    /\ sources_to_test = <<>>
    /\ NoSessions

InitSuite ==
    /\ \E kind \in {WS, MQTT}, k \in 0..MaxDepartures : iut \in IUTs(kind, k)
    /\ InitRun

crawlVars == <<apis, saved_entities, results, api, frame, requests, observed,
               substituted, call>>

\* self.set_up_tests(); an exception it raises ends the run.
SetUpTests ==
    /\ pc = "set_up"
    /\ LET made == set_up_tests(iut) IN
       /\ is05_senders' = iut.conn_senders
       /\ is07_sources' = iut.events
       /\ is04_sources' = iut.sources
       /\ is04_flows' = iut.flows
       /\ is04_senders' = iut.senders
       /\ transport_types' = made.transport_types
       /\ senders_active' = made.senders_active
       /\ senders_to_test' = made.senders_to_test
       /\ sources_to_test' = made.sources_to_test
       /\ IF made.raised.exception # "None"
          THEN /\ pc' = "crashed"
               /\ ret' = Raised(TestCase("set_up_tests"), made.raised)
          ELSE /\ pc' = "test"
               /\ ret' = ret
    /\ step' = 1
    /\ UNCHANGED <<crawlVars, result, iut, sessionVars>>

\* execute_tests(): `self.result.append(method())` for the method at `step`
\* of the test_ methods, in the order of dir(self).  Nothing catches an
\* exception of the method.
Called(outcome) ==
    IF outcome.state = "Raised"
    THEN /\ pc' = "crashed"
         /\ ret' = outcome
         /\ UNCHANGED <<result, step>>
    ELSE /\ result' = Append(result, outcome)
         /\ step' = step + 1
         /\ pc' = "test"
         /\ ret' = ret

Test01 ==
    /\ pc = "test"
    /\ step = 1
    /\ Called(test_01(Self, TestCase("test_01")))
    /\ UNCHANGED <<crawlVars, suiteVars, sessionVars>>

Test02 ==
    /\ pc = "test"
    /\ step = 2
    /\ Called(test_02(Self, TestCase("test_02")))
    /\ UNCHANGED <<crawlVars, suiteVars, sessionVars>>

Test03 ==
    /\ pc = "test"
    /\ step = 3
    /\ Called(test_03(Self, TestCase("test_03")))
    /\ UNCHANGED <<crawlVars, suiteVars, sessionVars>>

\* --------------------------------------------- IS-07-02: test_04, sessions

\* A WebsocketWorker: the endpoint it connects to, the state of its
\* connection, the messages received and not yet read, the messages sent.
WebsocketWorker(connection_uri) ==
    [id |-> connection_uri, state |-> "connecting", messages |-> <<>>, sent |-> <<>>]

is_open(websocket) == websocket.state = "open"

did_error_occur(websocket) == websocket.state = "errored"

\* A message of the IUT as a worker holds it: whether json.loads reads it,
\* and the dict it then gives.
ParsedAs(value) == [json |-> TRUE, value |-> value]

\* A message json.loads raises on; its value is never read.
Unparsable == [json |-> FALSE, value |-> [k \in {"message_type"} |-> "health"]]

\* The reply to a health command the IS-07 specification asks for:
\* origin_timestamp echoes the timestamp of the command, creation_timestamp
\* is later.  Timestamps are whole seconds.
HealthReply(command) ==
    ParsedAs([k \in {"message_type", "timing"} |->
                IF k = "message_type" THEN "health"
                ELSE [t \in {"origin_timestamp", "creation_timestamp"} |->
                        IF t = "origin_timestamp" THEN command.timestamp
                        ELSE command.timestamp + 1]])

\* The replies an IUT makes to a health command: the well-formed one, and
\* one for every way test_04 tells a reply from it.
Replies(command) ==
    LET good == HealthReply(command).value
        timing(t) == ParsedAs([good EXCEPT !["timing"] = t])
    IN { ParsedAs(good),
         Unparsable,
         ParsedAs(Without(good, {"message_type"})),
         ParsedAs([good EXCEPT !["message_type"] = "state"]),
         ParsedAs(Without(good, {"timing"})),
         timing(Without(good["timing"], {"origin_timestamp"})),
         timing([good["timing"] EXCEPT !["origin_timestamp"] = command.timestamp + 1]),
         timing(Without(good["timing"], {"creation_timestamp"})),
         timing([good["timing"] EXCEPT !["creation_timestamp"] = command.timestamp]),
         timing([good["timing"] EXCEPT !["creation_timestamp"] = command.timestamp - 1]) }

\* IS04Utils.compare_resource_version(ver1, ver2): 1 if ver1 is later, -1 if
\* it is earlier, 0 if they are equal.
compare_resource_version(ver1, ver2) ==
    IF ver1 > ver2 THEN 1 ELSE IF ver1 < ver2 THEN 0 - 1 ELSE 0

\* test_04 is in one of its phases.
InSession ==
    pc \in {"open", "opened", "quiescent", "health", "wait", "replies",
            "pre_timeout", "boundary", "expired", "confirm", "confirmed"}

\* `return test.FAIL(...)`, `return test.PASS()` of test_04, appended by
\* execute_tests.
Returns(outcome) ==
    /\ result' = Append(result, outcome)
    /\ step' = step + 1
    /\ pc' = "done"

\* time.sleep(0.2): the clock shows the same second or the next one.
ShortSleep == now' \in {now, now + 1}

\* time.sleep(1): the clock shows the next second.
Sleep == now' = now + 1

\* The first worker of the sequence whose connection failed, 0 if none did.
FirstErrored(websockets) ==
    IF \A i \in 1..Len(websockets) : ~did_error_occur(websockets[i]) THEN 0
    ELSE CHOOSE i \in 1..Len(websockets) :
            /\ did_error_occur(websockets[i])
            /\ \A j \in 1..(i - 1) : ~did_error_occur(websockets[j])

\* The first worker of the sequence that is not open, 0 if all are.
FirstNotOpen(websockets) ==
    IF \A i \in 1..Len(websockets) : is_open(websockets[i]) THEN 0
    ELSE CHOOSE i \in 1..Len(websockets) :
            /\ ~is_open(websockets[i])
            /\ \A j \in 1..(i - 1) : is_open(websockets[j])

\* The first worker of the sequence that is open, 0 if none is.
FirstOpen(websockets) ==
    IF \A i \in 1..Len(websockets) : ~is_open(websockets[i]) THEN 0
    ELSE CHOOSE i \in 1..Len(websockets) :
            /\ is_open(websockets[i])
            /\ \A j \in 1..(i - 1) : ~is_open(websockets[j])

AllOpen(websockets) == FirstNotOpen(websockets) = 0

\* The workers that are sent the health command only.
HealthCohort == websockets_with_health

\* The workers of both cohorts, in the order `for websockets in
\* [websockets_no_health, websockets_with_health]` visits them.
BothCohorts == websockets_no_health \o websockets_with_health

\* test_04, to the start of the workers: get_websocket_connection_sources,
\* then a worker per connection_uri and cohort, all started.
Test04 ==
    /\ pc = "test"
    /\ step = 4
    /\ LET test == TestCase("test_04")
           found == get_websocket_connection_sources(Self, iut, test)
       IN /\ senders_active' = found.senders_active
          /\ IF found.raised.exception # "None"
             THEN /\ pc' = "crashed"
                  /\ ret' = Raised(test, found.raised)
                  /\ UNCHANGED <<result, step, sessionVars>>
             ELSE IF Len(found.connection_sources) = 0
             THEN /\ Returns(UNCLEAR(test, NoResources))
                  /\ UNCHANGED <<ret, sessionVars>>
             ELSE /\ connection_sources' = found.connection_sources
                  /\ websockets_no_health' =
                        [i \in 1..Len(found.connection_sources) |->
                            WebsocketWorker(found.connection_sources[i].id)]
                  /\ websockets_with_health' =
                        [i \in 1..Len(found.connection_sources) |->
                            WebsocketWorker(found.connection_sources[i].id)]
                  /\ start_time' = now
                  /\ pc' = "open"
                  /\ UNCHANGED <<result, step, ret, now, health_command>>
    /\ UNCHANGED <<crawlVars, iut, is05_senders, is07_sources, is04_sources,
                   is04_flows, is04_senders, transport_types, senders_to_test,
                   sources_to_test>>

\* test_04: one turn of the loop that gives the workers a chance to open.
OpenPoll ==
    /\ pc = "open"
    /\ IF now < start_time + WS_MESSAGE_TIMEOUT /\ ~AllOpen(BothCohorts)
       THEN ShortSleep /\ pc' = pc
       ELSE now' = now /\ pc' = "opened"
    /\ UNCHANGED <<crawlVars, suiteVars, result, step, ret, connection_sources,
                   websockets_no_health, websockets_with_health, start_time,
                   health_command>>

\* test_04: "After that short while, they must all be connected
\* successfully".
OpenCheck ==
    /\ pc = "opened"
    /\ LET i == FirstNotOpen(BothCohorts) IN
       IF i # 0
       THEN Returns(FAIL(TestCase("test_04"),
                         Msg(IF did_error_occur(BothCohorts[i])
                             THEN "Error opening WebSocket connection to {}: {}"
                             ELSE "Error opening WebSocket connection to {}",
                             BothCohorts[i].id)))
       ELSE pc' = "quiescent" /\ UNCHANGED <<result, step>>
    /\ UNCHANGED <<crawlVars, suiteVars, ret, sessionVars>>

\* test_04: one turn of "All WebSocket connections must stay open until a
\* health command is required".
QuiescentPoll ==
    /\ pc = "quiescent"
    /\ IF now < start_time + WS_HEARTBEAT_INTERVAL
       THEN LET i == FirstNotOpen(BothCohorts) IN
            IF i # 0
            THEN /\ Returns(FAIL(TestCase("test_04"),
                                 Msg("WebSocket connection to {} was closed too early",
                                     BothCohorts[i].id)))
                 /\ now' = now
            ELSE Sleep /\ UNCHANGED <<result, step, pc>>
       ELSE pc' = "health" /\ UNCHANGED <<result, step, now>>
    /\ UNCHANGED <<crawlVars, suiteVars, ret, connection_sources,
                   websockets_no_health, websockets_with_health, start_time,
                   health_command>>

\* A test_04 that sends the health command to the workers of both cohorts.
SendHealthBothCohorts ==
    /\ pc = "health"
    /\ health_command' = [command |-> "health", timestamp |-> now]
    /\ websockets_with_health' =
          [i \in 1..Len(websockets_with_health) |->
              [websockets_with_health[i] EXCEPT !.sent = Append(@, health_command')]]
    /\ websockets_no_health' =
          [i \in 1..Len(websockets_no_health) |->
              [websockets_no_health[i] EXCEPT !.sent = Append(@, health_command')]]
    /\ pc' = "wait"
    /\ UNCHANGED <<crawlVars, suiteVars, result, step, ret, connection_sources,
                   start_time, now>>

\* test_04: "send health commands to one set of WebSockets".
SendHealth ==
    /\ pc = "health"
    /\ health_command' = [command |-> "health", timestamp |-> now]
    /\ websockets_with_health' =
          [i \in 1..Len(websockets_with_health) |->
              [websockets_with_health[i] EXCEPT !.sent = Append(@, health_command')]]
    /\ pc' = "wait"
    /\ UNCHANGED <<crawlVars, suiteVars, result, step, ret, connection_sources,
                   websockets_no_health, start_time, now>>

\* A test_04 that blocks until every worker that was sent the health
\* command has received a message.
WaitBlocking ==
    /\ pc = "wait"
    /\ \A i \in 1..Len(websockets_with_health) :
          Len(websockets_with_health[i].messages) >= 1
    /\ pc' = "replies"
    /\ UNCHANGED <<crawlVars, suiteVars, result, step, ret, sessionVars>>

\* test_04: one turn of the wait for a message on every worker that was
\* sent the health command.
WaitPoll ==
    /\ pc = "wait"
    /\ IF /\ now < start_time + WS_HEARTBEAT_INTERVAL * 2
          /\ \E i \in 1..Len(websockets_with_health) :
                Len(websockets_with_health[i].messages) < 1
       THEN ShortSleep /\ pc' = pc
       ELSE now' = now /\ pc' = "replies"
    /\ UNCHANGED <<crawlVars, suiteVars, result, step, ret, connection_sources,
                   websockets_no_health, websockets_with_health, start_time,
                   health_command>>

\* A test_04 that takes a creation_timestamp equal to the origin.
health_response_not_earlier(message) ==
    IF ~message.json THEN "health response cannot be parsed"
    ELSE LET value == message.value IN
    IF "message_type" \notin DOMAIN value
    THEN "health response does not have a message_type"
    ELSE IF value["message_type"] # "health"
    THEN "health response message_type is not set to health"
    ELSE IF "timing" \notin DOMAIN value
    THEN "health response does not have a timing object"
    ELSE IF "origin_timestamp" \notin DOMAIN value["timing"]
    THEN "health response does not have origin_timestamp"
    ELSE IF value["timing"]["origin_timestamp"] # health_command.timestamp
    THEN "health response origin_timestamp is not set to the original timestamp"
    ELSE IF "creation_timestamp" \notin DOMAIN value["timing"]
    THEN "health response does not have creation_timestamp"
    ELSE IF compare_resource_version(value["timing"]["creation_timestamp"],
                                     health_command.timestamp) = 0 - 1
    THEN "health response creation_timestamp expected to be later than origin"
    ELSE ""

\* test_04: what is wrong with the one message read from a worker, "" if
\* nothing is.
health_response(message) ==
    IF ~message.json THEN "health response cannot be parsed"
    ELSE LET value == message.value IN
    IF "message_type" \notin DOMAIN value
    THEN "health response does not have a message_type"
    ELSE IF value["message_type"] # "health"
    THEN "health response message_type is not set to health"
    ELSE IF "timing" \notin DOMAIN value
    THEN "health response does not have a timing object"
    ELSE IF "origin_timestamp" \notin DOMAIN value["timing"]
    THEN "health response does not have origin_timestamp"
    ELSE IF value["timing"]["origin_timestamp"] # health_command.timestamp
    THEN "health response origin_timestamp is not set to the original timestamp"
    ELSE IF "creation_timestamp" \notin DOMAIN value["timing"]
    THEN "health response does not have creation_timestamp"
    ELSE IF compare_resource_version(value["timing"]["creation_timestamp"],
                                     health_command.timestamp) # 1
    THEN "health response creation_timestamp expected to be later than origin"
    ELSE ""

\* A test_04 that reads the first message of a worker and no other.
first_health_response(messages) ==
    IF Len(messages) = 0 THEN "did not respond with a health response"
    ELSE health_response(messages[1])

\* test_04: what is wrong with the messages read from a worker.
health_responses(messages) ==
    IF Len(messages) = 0 THEN "did not respond with a health response"
    ELSE IF Len(messages) > 1 THEN "responded with more than 1 message"
    ELSE health_response(messages[1])

\* The first worker whose messages are not one good reply, 0 if there is
\* none.
FirstBadReply(websockets) ==
    IF \A i \in 1..Len(websockets) : health_responses(websockets[i].messages) = "" THEN 0
    ELSE CHOOSE i \in 1..Len(websockets) :
            /\ health_responses(websockets[i].messages) # ""
            /\ \A j \in 1..(i - 1) : health_responses(websockets[j].messages) = ""

\* test_04: the loop that reads the messages of every worker that was sent
\* the health command; get_messages() empties the queue it reads.
CheckReplies ==
    /\ pc = "replies"
    /\ LET bad == FirstBadReply(websockets_with_health)
           read == IF bad = 0 THEN Len(websockets_with_health) ELSE bad
       IN /\ websockets_with_health' =
                [i \in 1..Len(websockets_with_health) |->
                    IF i <= read
                    THEN [websockets_with_health[i] EXCEPT !.messages = <<>>]
                    ELSE websockets_with_health[i]]
          /\ IF bad # 0
             THEN Returns(FAIL(TestCase("test_04"),
                               Msg(health_responses(websockets_with_health[bad].messages),
                                   websockets_with_health[bad].id)))
             ELSE pc' = "pre_timeout" /\ UNCHANGED <<result, step>>
    /\ UNCHANGED <<crawlVars, suiteVars, ret, connection_sources,
                   websockets_no_health, start_time, now, health_command>>

\* A test_04 that watches, before the timeout, the workers that were sent
\* the health command.
PreTimeoutPollKeptAlive ==
    /\ pc = "pre_timeout"
    /\ IF now < start_time + WS_TIMEOUT - 1
       THEN LET i == FirstNotOpen(websockets_with_health) IN
            IF i # 0
            THEN /\ Returns(FAIL(TestCase("test_04"),
                                 Msg("WebSocket connection (no health cmd sent) to {} was closed too early",
                                     websockets_with_health[i].id)))
                 /\ now' = now
            ELSE Sleep /\ UNCHANGED <<result, step, pc>>
       ELSE pc' = "boundary" /\ UNCHANGED <<result, step, now>>
    /\ UNCHANGED <<crawlVars, suiteVars, ret, connection_sources,
                   websockets_no_health, websockets_with_health, start_time,
                   health_command>>

\* test_04: one turn of "connections which haven't been sent a health
\* command must stay opened for a period of time even without any
\* heartbeats".
PreTimeoutPoll ==
    /\ pc = "pre_timeout"
    /\ IF now < start_time + WS_TIMEOUT - 1
       THEN LET i == FirstNotOpen(websockets_no_health) IN
            IF i # 0
            THEN /\ Returns(FAIL(TestCase("test_04"),
                                 Msg("WebSocket connection (no health cmd sent) to {} was closed too early",
                                     websockets_no_health[i].id)))
                 /\ now' = now
            ELSE Sleep /\ UNCHANGED <<result, step, pc>>
       ELSE pc' = "boundary" /\ UNCHANGED <<result, step, now>>
    /\ UNCHANGED <<crawlVars, suiteVars, ret, connection_sources,
                   websockets_no_health, websockets_with_health, start_time,
                   health_command>>

\* A test_04 that watches, from the timeout on, the workers of both cohorts.
BoundaryPollBothCohorts ==
    /\ pc = "boundary"
    /\ IF now < start_time + WS_TIMEOUT + WS_HEARTBEAT_INTERVAL
       THEN LET i == FirstNotOpen(websockets_no_health \o websockets_with_health) IN
            IF i # 0
            THEN /\ Returns(FAIL(TestCase("test_04"),
                                 Msg("WebSocket connection (health cmd sent) to {} was closed too early",
                                     (websockets_no_health \o websockets_with_health)[i].id)))
                 /\ now' = now
            ELSE Sleep /\ UNCHANGED <<result, step, pc>>
       ELSE pc' = "expired" /\ UNCHANGED <<result, step, now>>
    /\ UNCHANGED <<crawlVars, suiteVars, ret, connection_sources,
                   websockets_no_health, websockets_with_health, start_time,
                   health_command>>

\* test_04: one turn of "connections which have been sent a health command
\* should still remain opened".
BoundaryPoll ==
    /\ pc = "boundary"
    /\ IF now < start_time + WS_TIMEOUT + WS_HEARTBEAT_INTERVAL
       THEN LET i == FirstNotOpen(websockets_with_health) IN
            IF i # 0
            THEN /\ Returns(FAIL(TestCase("test_04"),
                                 Msg("WebSocket connection (health cmd sent) to {} was closed too early",
                                     websockets_with_health[i].id)))
                 /\ now' = now
            ELSE Sleep /\ UNCHANGED <<result, step, pc>>
       ELSE pc' = "expired" /\ UNCHANGED <<result, step, now>>
    /\ UNCHANGED <<crawlVars, suiteVars, ret, connection_sources,
                   websockets_no_health, websockets_with_health, start_time,
                   health_command>>

\* test_04: "Now, all WebSocket connections which haven't been sent a
\* health command must all be disconnected".
ExpiredCheck ==
    /\ pc = "expired"
    /\ LET i == FirstOpen(websockets_no_health) IN
       IF i # 0
       THEN Returns(FAIL(TestCase("test_04"),
                         Msg("WebSocket connection (no health cmd sent) to {} was not closed after timeout",
                             websockets_no_health[i].id)))
       ELSE pc' = "confirm" /\ UNCHANGED <<result, step>>
    /\ UNCHANGED <<crawlVars, suiteVars, ret, sessionVars>>

\* test_04: one turn of the wait for the workers that were sent the health
\* command to be closed.
ConfirmPoll ==
    /\ pc = "confirm"
    /\ IF /\ now < start_time + WS_TIMEOUT + WS_HEARTBEAT_INTERVAL * 2
          /\ FirstOpen(websockets_with_health) # 0
       THEN ShortSleep /\ pc' = pc
       ELSE now' = now /\ pc' = "confirmed"
    /\ UNCHANGED <<crawlVars, suiteVars, result, step, ret, connection_sources,
                   websockets_no_health, websockets_with_health, start_time,
                   health_command>>

\* A test_04 that ends with PASS when the grace period has passed.
ConfirmCheckPasses ==
    /\ pc = "confirmed"
    /\ Returns(PASS(TestCase("test_04")))
    /\ UNCHANGED <<crawlVars, suiteVars, ret, sessionVars>>

\* test_04: "Now, they must all be disconnected", and the PASS.
ConfirmCheck ==
    /\ pc = "confirmed"
    /\ LET i == FirstOpen(websockets_with_health) IN
       IF i # 0
       THEN Returns(FAIL(TestCase("test_04"),
                         Msg("WebSocket connection (health cmd sent) to {} was not closed after timeout",
                             websockets_with_health[i].id)))
       ELSE Returns(PASS(TestCase("test_04")))
    /\ UNCHANGED <<crawlVars, suiteVars, ret, sessionVars>>

\* A change of one worker of one cohort, the rest of the state kept.
Becomes(health, i, websocket) ==
    /\ IF health
       THEN /\ websockets_with_health' =
                  [websockets_with_health EXCEPT ![i] = websocket]
            /\ UNCHANGED websockets_no_health
       ELSE /\ websockets_no_health' = [websockets_no_health EXCEPT ![i] = websocket]
            /\ UNCHANGED websockets_with_health
    /\ UNCHANGED <<crawlVars, suiteVars, result, step, pc, ret, connection_sources,
                   start_time, now, health_command>>

Worker(health, i) ==
    IF health THEN websockets_with_health[i] ELSE websockets_no_health[i]

\* The thread of a worker: its connection is accepted.
WorkerOpens ==
    /\ InSession
    /\ \E health \in BOOLEAN, i \in 1..Len(connection_sources) :
          /\ Worker(health, i).state = "connecting"
          /\ Becomes(health, i, [Worker(health, i) EXCEPT !.state = "open"])

\* The thread of a worker: its connection fails.
WorkerFails ==
    /\ InSession
    /\ \E health \in BOOLEAN, i \in 1..Len(connection_sources) :
          /\ Worker(health, i).state \in {"connecting", "open"}
          /\ Becomes(health, i, [Worker(health, i) EXCEPT !.state = "errored"])

\* The thread of a worker: the IUT closes its connection.
WorkerCloses ==
    /\ InSession
    /\ \E health \in BOOLEAN, i \in 1..Len(connection_sources) :
          /\ Worker(health, i).state = "open"
          /\ Becomes(health, i, [Worker(health, i) EXCEPT !.state = "closed"])

\* The thread of a worker that was sent the health command: a message of
\* the IUT is received.  test_04 reads the content of a message only when
\* it is the only one of its queue.
WorkerReceives ==
    /\ pc \in {"wait", "replies"}
    /\ \E i \in 1..Len(connection_sources), message \in Replies(health_command) :
          /\ websockets_with_health[i].state = "open"
          /\ Len(websockets_with_health[i].messages) < MaxMessages
          /\ Len(websockets_with_health[i].messages) > 0 =>
                message = HealthReply(health_command)
          /\ Becomes(TRUE, i, [websockets_with_health[i] EXCEPT
                                  !.messages = Append(@, message)])

NextSuite ==
    \/ SetUpTests
    \/ Test01
    \/ Test02
    \/ Test03
    \/ Test04

SpecSuite == InitSuite /\ [][NextSuite]_vars

\* The implementations the sessions of test_04 are followed with: both
\* senders at one connection_uri, and each at its own.
SessionIUTs ==
    { IUTOf(WS, {}), IUTOf(WS, {Set("params", 2, "connection_uri", "ws://b")}) }

InitSession ==
    /\ iut \in SessionIUTs
    /\ InitRun

NextSession ==
    \/ NextSuite
    \/ OpenPoll
    \/ OpenCheck
    \/ QuiescentPoll
    \/ SendHealth
    \/ WaitPoll
    \/ CheckReplies
    \/ PreTimeoutPoll
    \/ BoundaryPoll
    \/ ExpiredCheck
    \/ ConfirmPoll
    \/ ConfirmCheck
    \/ WorkerOpens
    \/ WorkerFails
    \/ WorkerCloses
    \/ WorkerReceives

SpecSession == InitSession /\ [][NextSession]_vars

\* The steps of the thread that runs the tests, as opposed to the threads of
\* the workers.
Verifier ==
    \/ NextSuite
    \/ OpenPoll
    \/ OpenCheck
    \/ QuiescentPoll
    \/ SendHealth
    \/ WaitPoll
    \/ CheckReplies
    \/ PreTimeoutPoll
    \/ BoundaryPoll
    \/ ExpiredCheck
    \/ ConfirmPoll
    \/ ConfirmCheck

\* The run with a thread of the tests that is scheduled and a clock that
\* advances: time.sleep returns and time.time() grows.  Nothing is assumed
\* of the workers, which may never open, receive or close.
\* It is followed for the IUT with one endpoint: a worker of each cohort.
InitFair ==
    /\ iut = IUTOf(WS, {})
    /\ InitRun

SpecSessionFair == InitFair /\ [][NextSession]_vars /\ WF_vars(Verifier)

\* ------------------------------------------------------------- properties

Last(seq) == seq[Len(seq)]

IsPrefix(s, t) == Len(s) <= Len(t) /\ SubSeq(t, 1, Len(s)) = s

\* check_api_resource is entered for a resource basics() hands it.
Crawling == pc = "resource" /\ 200 \in Current.responses

\* The step taken is a request through do_request.
Requested == Len(requests') = Len(requests) + 1

\* C1: every identifier in saved_entities[K] was seen in the body of a
\* response to a GET of K, and every identifier substituted into a
\* single-parameter path was seen in the body of a response to a GET of that
\* path's collection path: the crawler never synthesizes an identifier.
C1_HarvestedOnly ==
    /\ \A K \in DOMAIN saved_entities :
          \A i \in 1..Len(saved_entities[K]) : <<K, saved_entities[K][i]>> \in observed
    /\ substituted \subseteq observed

\* An identifier has been substituted and requested.
C1_Witness ==
    /\ substituted # {}
    /\ \E i \in 1..Len(requests) : requests[i].url = <<Root, W, <<"a">>>>

\* C2: the cache is append-only: in every step each key stays and the old
\* value of its entry is a prefix of the new one.
C2_AppendOnly ==
    [][\A K \in DOMAIN saved_entities :
          /\ K \in DOMAIN saved_entities'
          /\ IsPrefix(saved_entities[K], saved_entities'[K])]_vars

\* An entry holds more ids than one response body can: a later harvest was
\* appended to an existing entry.
C2_Witness == \E K \in DOMAIN saved_entities : Len(saved_entities[K]) > MaxBody

\* An entry that adds to the harvest: an object with an id, or a string
\* that ends in the separator.
Contributes(entry) ==
    \/ entry.t = "dict" /\ entry.hasId
    \/ entry.t = "str" /\ Len(entry.s) > 0 /\ entry.s[Len(entry.s)] = SLASH

\* s less all its trailing separators: the prefix of s that does not end
\* in a separator and is followed by separators only.
StripAll(s) ==
    CHOOSE p \in { SubSeq(s, 1, n) : n \in 0..Len(s) } :
        /\ \A k \in (Len(p) + 1)..Len(s) : s[k] = SLASH
        /\ (Len(p) > 0 => p[Len(p)] # SLASH)

\* s less its last character.
StripOne(s) == SubSeq(s, 1, Len(s) - 1)

\* The ids of the contributing entries, in array order; strip(_) is what a
\* string entry contributes.
HarvestOf(body, strip(_)) ==
    IF body.json /\ body.list
    THEN LET c == SelectSeq(body.items, Contributes)
         IN [i \in 1..Len(c) |-> IF c[i].t = "dict" THEN c[i].id ELSE strip(c[i].s)]
    ELSE <<>>

\* The cache with h appended to the entry for path, the entry created if
\* absent.
Appended(cache, path, h) ==
    [k \in DOMAIN cache \cup {path} |->
        IF k = path
        THEN (IF path \in DOMAIN cache THEN cache[path] ELSE <<>>) \o h
        ELSE cache[k]]

\* save_subresources has been applied on its own.
Harvested == call.fn = "save_subresources" /\ call.out = "returned"

\* C3 (as stated): for an array body the ids of the objects and the string
\* entries less their one trailing separator are appended, in array order,
\* to the entry for the path, which is created if absent (an empty harvest
\* may also leave the cache alone); any other body leaves the cache as it
\* was.
C3_Original ==
    Harvested =>
        IF call.response.body.json /\ call.response.body.list
        THEN \/ saved_entities =
                    Appended(call.prior, call.path,
                             HarvestOf(call.response.body, StripOne))
             \/ /\ HarvestOf(call.response.body, StripOne) = <<>>
                /\ saved_entities = call.prior
        ELSE saved_entities = call.prior

\* C3 (amended): the harvest is, in array order, the id of each object
\* entry that has one and each string entry that ends in a separator less
\* all its trailing separators; a non-empty harvest is appended to the
\* entry for the path, created if absent, and an empty harvest (also that
\* of a non-array or non-JSON body) leaves the cache as it was, creating no
\* entry.
C3_Harvest ==
    Harvested =>
        saved_entities =
            IF HarvestOf(call.response.body, StripAll) # <<>>
            THEN Appended(call.prior, call.path, HarvestOf(call.response.body, StripAll))
            ELSE call.prior

\* A body ["b//", {"id": "a"}] has been harvested after an existing entry.
C3_Witness ==
    /\ Harvested
    /\ call.response.body.items = <<StrEntry(<<"b", "/", "/">>), DictEntry(TRUE, <<"a">>)>>
    /\ saved_entities[Widgets] = << <<"z">>, <<"b">>, <<"a">> >>

\* C4: a single-parameter endpoint crawled while the cache has no entry for
\* its collection path issues no request and returns NOT_APPLICABLE, which
\* basics() appends as one outcome.
C4_NoDataIsNA ==
    /\ [][(Crawling /\ Kind(Current) = "single"
             /\ CollectionPath(Current.path) \notin DOMAIN saved_entities)
          => /\ requests' = requests
             /\ pc' = "returned"
             /\ ret'.state = "Not Applicable"
             /\ ret'.name.path = Current.path]_vars
    /\ [][(pc = "returned" /\ ret.state = "Not Applicable")
          => results' = Append(results, ret)]_vars

\* The NOT_APPLICABLE outcome is in the list basics() returns, although the
\* collection endpoint is crawled later in the same run.
C4_Witness ==
    /\ pc = "done"
    /\ \E i \in 1..Len(result) :
          result[i].state = "Not Applicable" /\ result[i].name.path = Widget
    /\ Widgets \in DOMAIN saved_entities

\* The text do_request is to return for a transport failure.
TransportText(fault) ==
    CASE fault = "Timeout" -> "Connection timeout"
      [] fault = "TooManyRedirects" -> "Too many redirects"
      [] OTHER -> "str(e)"

\* C5: a request that fails at the transport level makes check_api_resource
\* return FAIL carrying the transport error text; nothing is raised and
\* basics() appends the outcome and goes on to the next endpoint.
C5_TransportFailureIsFail ==
    /\ [][(Requested /\ Last(requests').fault # "None")
          => /\ pc' = "returned"
             /\ ret'.state = "Fail"
             /\ ret'.detail = TransportText(Last(requests').fault)
             /\ saved_entities' = saved_entities]_vars
    /\ [][(pc = "returned" /\ ret.state = "Fail")
          => (results' = Append(results, ret) /\ pc' = "loop")]_vars

\* A run that met a timeout on one endpoint and requested the next one.
C5_Witness ==
    \E i \in 1..Len(requests) :
        /\ requests[i].fault = "Timeout"
        /\ i < Len(requests)
        /\ \E j \in 1..Len(results) : results[j].detail = "Connection timeout"

\* C6: a response whose status code is not the declared one makes the
\* outcome FAIL before any harvesting or validation: the cache is unchanged
\* and check_response is not reached.
C6_StatusMismatchIsFail ==
    [][(Requested /\ Last(requests').fault = "None" /\ Last(requests').status_code # 200)
       => /\ pc' = "returned"
          /\ ret'.state = "Fail"
          /\ ret'.detail = "Incorrect response code"
          /\ saved_entities' = saved_entities]_vars

\* A 404 whose body lists an id has been answered and has failed the
\* endpoint, and the id is not in the cache.
C6_Witness ==
    /\ pc = "returned"
    /\ ret.detail = "Incorrect response code"
    /\ Last(requests).status_code = 404
    /\ <<Widgets, <<"a">>>> \in observed
    /\ Widgets \notin DOMAIN saved_entities

\* C7: a read endpoint with more than one parameter issues no request,
\* substitutes nothing, and is flagged in the outcome sequence: once
\* basics() has passed it, the last outcome names its path.
C7_MultiParamFlagged ==
    (pc = "loop" /\ step >= 1 /\ Kind(Current) = "multi" /\ 200 \in Current.responses)
    => /\ Len(results) > 0
       /\ Last(results).name.path = Current.path

\* The cross-origin headers a response to a read method must carry.
ReadHeadersOK(headers) == ACAO \in DOMAIN headers

\* C8: check_response decides in a fixed order: bad cross-origin headers
\* give FAIL whatever the schema and body; else no schema gives MANUAL
\* whatever the body; else a body that is not JSON gives FAIL with its own
\* message; else a schema violation gives FAIL; else PASS.
C8_CheckResponseOrder ==
    (pc = "returned" /\ frame # NoFrame) =>
        LET r == frame.response IN
        /\ ~ReadHeadersOK(r.headers) => ret.state = "Fail"
        /\ (ReadHeadersOK(r.headers) /\ ~frame.schema) => ret.state = "Manual"
        /\ (ReadHeadersOK(r.headers) /\ frame.schema /\ ~r.body.json)
              => (ret.state = "Fail" /\ ret.detail = "Invalid JSON received")
        /\ (ReadHeadersOK(r.headers) /\ frame.schema /\ r.body.json /\ ~r.conforms)
              => (ret.state = "Fail" /\ ret.detail = "Response schema validation error")
        /\ (ReadHeadersOK(r.headers) /\ frame.schema /\ r.body.json /\ r.conforms)
              => ret.state = "Pass"

\* A response with valid headers, no schema and a malformed body has been
\* given MANUAL.
C8_Witness ==
    /\ pc = "returned"
    /\ frame # NoFrame
    /\ ReadHeadersOK(frame.response.headers)
    /\ ~frame.schema
    /\ ~frame.response.body.json
    /\ ret.state = "Manual"

\* The headers a response must carry for the method used.
HeadersRequired(method, headers) ==
    /\ ACAO \in DOMAIN headers
    /\ method \in MutatingMethods =>
          /\ ACAH \in DOMAIN headers
          /\ ACAM \in DOMAIN headers
          /\ method \in headers[ACAM]

\* C9: validate_CORS accepts a response to a mutating method exactly when
\* allow-origin and allow-headers are present and allow-methods is present
\* and lists the method, accepts a response to another method exactly when
\* allow-origin is present, and rejects by returning, never by raising.
C9_CORSAccepts ==
    (call.fn = "validate_CORS" /\ call.out # "pending") =>
        call.out = IF HeadersRequired(call.method, call.headers) THEN "True" ELSE "False"

\* C10: check_response (with validate_CORS) leaves the identifier cache, the
\* API surfaces and the result lists as they were.
C10_CheckResponseReadOnly ==
    [][pc = "validate"
       => /\ saved_entities' = saved_entities
          /\ apis' = apis
          /\ result' = result
          /\ results' = results]_vars

\* check_response has returned an outcome for a response that listed ids,
\* with a cache that holds entries.
C10_Witness ==
    /\ pc = "returned"
    /\ ret.state \in {"Pass", "Manual", "Fail"}
    /\ ret.detail \notin {"Incorrect response code", "str(e)"}
    /\ Len(requests) > 0
    /\ Last(requests).status_code = 200
    /\ DOMAIN saved_entities # {}

\* The test_ methods of IS0702Test, in the order of dir(self).
TestMethods == {"test_01", "test_02", "test_03", "test_04"}

\* C11: every test method contributes exactly one outcome to the run: an
\* exception raised inside a test method is turned into a FAIL for that
\* test, and the test methods after it are still executed.
C11_ExceptionIsFail ==
    (ret.state = "Raised" /\ ret.name.method \in TestMethods) =>
        /\ pc # "crashed"
        /\ \E i \in 1..Len(result) :
              result[i].name = ret.name /\ result[i].state = "Fail"

\* C13: for a single-parameter path whose collection path has a cache entry,
\* a crawl of that endpoint issues exactly one request, and the identifier
\* in it is the first (oldest) element of that entry.
C13_FirstHarvested ==
    [][(/\ Crawling
        /\ Kind(Current) = "single"
        /\ CollectionPath(Current.path) \in DOMAIN saved_entities)
       => /\ Requested
          /\ Last(requests').url =
                [Current.path EXCEPT ![Len(Current.path)] =
                    Head(saved_entities[CollectionPath(Current.path)])]]_vars

\* "/w/{i}" was requested as "/w/a" when the cache of "/w" was ["a", "b"].
C13_Witness ==
    /\ Widgets \in DOMAIN saved_entities
    /\ saved_entities[Widgets] = << <<"a">>, <<"b">> >>
    /\ requests # <<>>
    /\ Last(requests).url = <<Root, W, <<"a">>>>
    /\ pc = "validate"

\* The resources of every API, in the order basics() crawls them.
RECURSIVE Declared(_, _)
Declared(surface, a) ==
    IF a > Len(surface) THEN <<>>
    ELSE surface[a].resources \o Declared(surface, a + 1)

\* No single-parameter path is declared before a path that is its
\* collection path.
DeclaredInOrder(surface) ==
    LET all == Declared(surface, 1) IN
    \A p, q \in 1..Len(all) :
        (p < q /\ Len(all[p].params) = 1) => all[q].path # CollectionPath(all[p].path)

\* Two crawls were made and the outcomes of both are in self.result.
CrawledTwice == pc = "done" /\ call = [fn |-> "run_tests", pass |-> 2]

\* The verdicts of the second crawl are those of the first, endpoint by
\* endpoint.
SameVerdicts ==
    LET n == Len(result) \div 2 IN
    /\ Len(result) = 2 * n
    /\ \A i \in 1..n : result[n + i].state = result[i].state

Ran(method) == \E i \in 1..Len(result) : result[i].name = TestCase(method)

OutcomeOf(method) == result[CHOOSE i \in 1..Len(result) : result[i].name = TestCase(method)]

\* C14: in the correlation layer (set_up_tests, test_01 to test_04) a record
\* that lacks a foreign key or a required field never makes an exception
\* escape: the join is treated as absent and the check reports a FAIL.
C14_MissingKeyReported == ~(ret.state = "Raised" /\ ret.detail.exception = "KeyError")

\* The senders eligible for testing.
Eligible == { senders_to_test[i]["id"] : i \in 1..Len(senders_to_test) }

\* The names of the ext_ parameters of the active transport parameters of a
\* sender.
ExtParams(sender) ==
    DOMAIN senders_active[sender]["transport_params"][1]
        \cap {"ext_is_07_source_id", "ext_is_07_rest_api_url", "ext_is_07_other"}

\* The sender has active parameters in the Connection API and their ext_
\* parameters are exactly those declared for its transport kind.
HasDeclaredExtParams(sender) ==
    /\ sender \in DOMAIN senders_active
    /\ \/ /\ transport_types[sender] = WS
          /\ ExtParams(sender) = {"ext_is_07_source_id", "ext_is_07_rest_api_url"}
       \/ /\ transport_types[sender] = MQTT
          /\ ExtParams(sender) = {"ext_is_07_rest_api_url"}

\* C15: test_01 returns PASS only if every eligible sender has exactly the
\* ext_ parameters declared for its transport kind; an eligible sender with
\* another set, another transport kind or no active parameters in the
\* Connection API yields a FAIL that names such a sender.
C15_ExtParamsExact ==
    Ran("test_01") =>
        LET outcome == OutcomeOf("test_01") IN
        /\ outcome.state = "Pass" => \A s \in Eligible : HasDeclaredExtParams(s)
        /\ (\E s \in Eligible : ~HasDeclaredExtParams(s)) =>
              /\ outcome.state = "Fail"
              /\ outcome.detail.about \in Eligible
              /\ ~HasDeclaredExtParams(outcome.detail.about)

\* test_01 failed for the second sender, which has one ext_ parameter more
\* than its transport declares, the first sender having the declared ones.
C15_Witness ==
    /\ Ran("test_01")
    /\ OutcomeOf("test_01").state = "Fail"
    /\ Len(senders_to_test) = 2
    /\ OutcomeOf("test_01").detail.about = senders_to_test[2]["id"]
    /\ HasDeclaredExtParams(senders_to_test[1]["id"])
    /\ senders_to_test[2]["id"] \in DOMAIN senders_active
    /\ "ext_is_07_other" \in ExtParams(senders_to_test[2]["id"])

\* The eligible WebSocket senders: those joined to a source of the Events
\* API whose IS-04 transport is the WebSocket one.
WebsocketSenders ==
    { c.sender : c \in { Candidates(Self, 1)[i] : i \in 1..Len(Candidates(Self, 1)) } }

ActiveParam(sender, key) == senders_active[sender["id"]]["transport_params"][1][key]

\* C16: test_03 returns PASS only if, within every device, all eligible
\* WebSocket senders have equal connection_uri and equal
\* connection_authorization, whatever the order they are iterated in.
C16_SameParamsPerDevice ==
    (Ran("test_03") /\ OutcomeOf("test_03").state = "Pass") =>
        \A a, b \in WebsocketSenders :
            (a["transport"] = WS /\ b["transport"] = WS
             /\ a["device_id"] = b["device_id"]) =>
                /\ ActiveParam(a, "connection_uri") = ActiveParam(b, "connection_uri")
                /\ ActiveParam(a, "connection_authorization")
                      = ActiveParam(b, "connection_authorization")

\* C17: test_02 returns a verdict other than FAIL only if every source of
\* the Events API is among the Node API sources under test and has the
\* event_type it has there, which is also the event_type of a flow that the
\* sender -> flow -> source join reaches; one source that differs or is
\* missing yields FAIL wherever it stands.
C17_EventTypesAgree ==
    (Ran("test_02") /\ OutcomeOf("test_02").state # "Fail") =>
        \A i \in 1..Len(is07_sources) :
            LET source_id == is07_sources[i]["id"]
                state == is07_sources[i]["state"]
            IN /\ source_id \in Keys(sources_to_test)
               /\ "event_type" \in DOMAIN state
               /\ Lookup(is04_sources, source_id)["event_type"] = state["event_type"]
               /\ \E j \in 1..Len(senders_to_test) :
                     LET flow == Lookup(is04_flows, senders_to_test[j]["flow_id"]) IN
                     /\ flow["source_id"] = source_id
                     /\ "event_type" \in DOMAIN flow
                     /\ flow["event_type"] = state["event_type"]

\* test_02 failed for the second source of the Events API, whose event_type
\* differs from the one in the Node API, the first source agreeing.
C17_Witness ==
    /\ Ran("test_02")
    /\ OutcomeOf("test_02").state = "Fail"
    /\ Len(is07_sources) = 2
    /\ OutcomeOf("test_02").detail.about = is07_sources[2]["id"]
    /\ OutcomeOf("test_02").detail.text
          = "Source {} specifies a different event_type in IS-04"
    /\ is07_sources[1]["id"] \in Keys(sources_to_test)
    /\ Lookup(is04_sources, is07_sources[1]["id"])["event_type"]
          = is07_sources[1]["state"]["event_type"]

\* The endpoints of the workers of the sequence that are not open.
NotOpen(websockets) ==
    { websockets[i].id : i \in { j \in 1..Len(websockets) : websockets[j].state # "open" } }

\* The workers of both cohorts.
AllWorkers == websockets_no_health \o websockets_with_health

\* The step is one of test_04, not one of a worker's thread.
Test04Step == pc' # pc \/ now' # now

\* test_04 returns FAIL with the given text, naming one of the endpoints.
FailsNaming(text, endpoints) ==
    /\ pc' = "done"
    /\ Len(result') = Len(result) + 1
    /\ Last(result').name = TestCase("test_04")
    /\ Last(result').state = "Fail"
    /\ Last(result').detail.text \in text
    /\ Last(result').detail.about \in endpoints

NoHealthSent ==
    /\ health_command.command = "none"
    /\ \A i \in 1..Len(AllWorkers) : AllWorkers[i].sent = <<>>

\* C18: open phase.  A worker is started for every endpoint in both
\* cohorts; they are polled until all are open or the startup timeout has
\* elapsed; if a worker is then not open (failed or still connecting),
\* test_04 returns FAIL naming its endpoint and no health command is sent.
C18_OpenPhase ==
    [][/\ pc' = "open" =>
            /\ Len(websockets_no_health') = Len(connection_sources')
            /\ Len(websockets_with_health') = Len(connection_sources')
            /\ Len(connection_sources') > 0
       /\ (pc = "open" /\ pc' # "open") =>
            /\ pc' = "opened"
            /\ NotOpen(AllWorkers) = {} \/ now >= start_time + WS_MESSAGE_TIMEOUT
       /\ (pc = "opened" /\ Test04Step /\ NotOpen(AllWorkers) # {}) =>
            /\ FailsNaming({"Error opening WebSocket connection to {}: {}",
                             "Error opening WebSocket connection to {}"},
                            NotOpen(AllWorkers))
            /\ NoHealthSent'
       /\ (pc = "opened" /\ Test04Step /\ NotOpen(AllWorkers) = {}) =>
            pc' = "quiescent"]_vars

\* test_04 has failed in the open phase for a worker that was still
\* connecting when the startup timeout elapsed, the other endpoint open.
C18_Witness ==
    /\ pc = "done"
    /\ Ran("test_04")
    /\ OutcomeOf("test_04").detail = Msg("Error opening WebSocket connection to {}", "ws://b")
    /\ websockets_with_health[2].state = "connecting"
    /\ websockets_with_health[1].state = "open"
    /\ now >= start_time + WS_MESSAGE_TIMEOUT
    /\ NoHealthSent

\* C19: quiescent phase.  Until one heartbeat interval has passed since the
\* workers were started, every poll that finds a worker of either cohort
\* closed or failed makes test_04 return FAIL ("closed too early") naming
\* its endpoint, and the health command is sent no earlier than that.
C19_QuiescentPhase ==
    [][/\ (/\ pc = "quiescent"
            /\ Test04Step
            /\ now < start_time + WS_HEARTBEAT_INTERVAL
            /\ NotOpen(AllWorkers) # {}) =>
                FailsNaming({"WebSocket connection to {} was closed too early"},
                            NotOpen(AllWorkers))
       /\ (pc = "quiescent" /\ pc' = "health") =>
                now >= start_time + WS_HEARTBEAT_INTERVAL
       /\ (pc = "quiescent" /\ pc' = "quiescent" /\ Test04Step) =>
                NotOpen(AllWorkers) = {}]_vars

\* test_04 has failed in the quiescent phase for a worker that is not sent
\* the health command and was closed three seconds in.
C19_Witness ==
    /\ pc = "done"
    /\ Ran("test_04")
    /\ OutcomeOf("test_04").detail
          = Msg("WebSocket connection to {} was closed too early", "ws://b")
    /\ websockets_no_health[2].state = "closed"
    /\ websockets_no_health[1].state = "open"
    /\ now = start_time + 3

\* The workers of the sequence that do not hold exactly one message.
NotOneReply(websockets) ==
    { websockets[i].id :
        i \in { j \in 1..Len(websockets) : Len(websockets[j].messages) # 1 } }

\* C20: heartbeat phase.  One health command is sent on every worker of the
\* kept-alive cohort and none on the others; test_04 waits for the replies
\* no longer than two heartbeat intervals from the start; a worker that
\* then holds no message, or more than one, makes test_04 return FAIL.
C20_HeartbeatPhase ==
    [][/\ (pc = "health" /\ Test04Step) =>
            /\ pc' = "wait"
            /\ \A i \in 1..Len(websockets_with_health') :
                  /\ websockets_with_health[i].sent = <<>>
                  /\ websockets_with_health'[i].sent = <<health_command'>>
                  /\ health_command'.command = "health"
       /\ \A i \in 1..Len(websockets_no_health') : websockets_no_health'[i].sent = <<>>
       /\ pc # "health" => \A i \in 1..Len(websockets_with_health) :
                              websockets_with_health'[i].sent = websockets_with_health[i].sent
       /\ (pc = "wait" /\ pc' = "wait" /\ Test04Step) =>
            now < start_time + WS_HEARTBEAT_INTERVAL * 2
       /\ (pc = "replies" /\ Test04Step /\ NotOneReply(websockets_with_health) # {}) =>
            /\ pc' = "done"
            /\ Len(result') = Len(result) + 1
            /\ Last(result').name = TestCase("test_04")
            /\ Last(result').state = "Fail"
       /\ (pc = "replies" /\ pc' = "pre_timeout") =>
            NotOneReply(websockets_with_health) = {}]_vars

\* test_04 has failed in the heartbeat phase for a worker that received
\* two messages, the worker before it having received its one reply.
C20_Witness ==
    /\ pc = "done"
    /\ Ran("test_04")
    /\ OutcomeOf("test_04").detail = Msg("responded with more than 1 message", "ws://b")
    /\ Len(websockets_with_health[2].sent) = 1
    /\ websockets_no_health[2].sent = <<>>
    /\ websockets_with_health[1].messages = <<>>

\* The message is a health reply that echoes the timestamp of the command
\* sent and was created strictly later.
Acceptable(message) ==
    /\ message.json
    /\ "message_type" \in DOMAIN message.value
    /\ message.value["message_type"] = "health"
    /\ "timing" \in DOMAIN message.value
    /\ {"origin_timestamp", "creation_timestamp"} \subseteq DOMAIN message.value["timing"]
    /\ message.value["timing"]["origin_timestamp"] = health_command.timestamp
    /\ message.value["timing"]["creation_timestamp"]
          > message.value["timing"]["origin_timestamp"]

\* The workers of the sequence that hold one message, and not an acceptable
\* one.
BadReply(websockets) ==
    { i \in 1..Len(websockets) :
        /\ Len(websockets[i].messages) = 1
        /\ ~Acceptable(websockets[i].messages[1]) }

\* C21: test_04 goes on from the replies only if the one reply of every
\* kept-alive worker has message_type health, an origin_timestamp equal to
\* the timestamp of the command sent and a creation_timestamp strictly later
\* than it; a reply that cannot be read, lacks the message type, the timing
\* object or a timestamp, echoes another origin or was created at or before
\* the origin makes test_04 return FAIL.
C21_HealthReplyOrdering ==
    [][(pc = "replies" /\ Test04Step) =>
          /\ BadReply(websockets_with_health) # {} =>
                /\ pc' = "done"
                /\ Len(result') = Len(result) + 1
                /\ Last(result').name = TestCase("test_04")
                /\ Last(result').state = "Fail"
          /\ pc' = "pre_timeout" =>
                \A i \in 1..Len(websockets_with_health) :
                   /\ Len(websockets_with_health[i].messages) = 1
                   /\ Acceptable(websockets_with_health[i].messages[1])]_vars

\* test_04 has failed on the reply of the second endpoint, created no later
\* than the command it answers, after it took the reply of the first.
C21_Witness ==
    /\ pc = "done"
    /\ Ran("test_04")
    /\ OutcomeOf("test_04").state = "Fail"
    /\ OutcomeOf("test_04").detail
          = Msg("health response creation_timestamp expected to be later than origin",
                "ws://b")
    /\ health_command.command = "health"
    /\ websockets_with_health[2].state = "open"

\* C22: pre-timeout phase.  From the end of the heartbeat phase until one
\* second before the timeout, counted from the start of the workers, every
\* poll that finds a worker that was not sent the health command closed or
\* failed makes test_04 return FAIL naming its endpoint; the phase ends no
\* earlier than that moment, and goes on only while all of them are open.
C22_PreTimeoutPhase ==
    [][/\ (/\ pc = "pre_timeout"
            /\ Test04Step
            /\ now < start_time + WS_TIMEOUT - 1
            /\ NotOpen(websockets_no_health) # {}) =>
                FailsNaming({"WebSocket connection (no health cmd sent) to {} was closed too early"},
                            NotOpen(websockets_no_health))
       /\ (pc = "pre_timeout" /\ pc' = "boundary") =>
                now >= start_time + WS_TIMEOUT - 1
       /\ (pc = "pre_timeout" /\ pc' = "pre_timeout" /\ Test04Step) =>
                /\ NotOpen(websockets_no_health) = {}
                /\ now' = now + 1
       /\ (pc = "replies" /\ pc' # "done" /\ Test04Step) => pc' = "pre_timeout"]_vars

\* test_04 has failed before the timeout for a worker that was not sent the
\* health command and was closed nine seconds in, the kept-alive ones open.
C22_Witness ==
    /\ pc = "done"
    /\ Ran("test_04")
    /\ OutcomeOf("test_04").state = "Fail"
    /\ OutcomeOf("test_04").detail
          = Msg("WebSocket connection (no health cmd sent) to {} was closed too early",
                "ws://b")
    /\ websockets_no_health[2].state = "closed"
    /\ websockets_no_health[1].state = "open"
    /\ NotOpen(websockets_with_health) = {}
    /\ now = start_time + 9

\* The workers that were not sent the health command play no part in the
\* step of the boundary phase: with the kept-alive ones open it returns no
\* outcome.
NotKeptAliveUnchecked ==
    (pc = "boundary" /\ Test04Step /\ NotOpen(websockets_with_health) = {}) =>
        /\ pc' \in {"boundary", "expired"}
        /\ result' = result

\* C23 as stated: the kept-alive workers are open throughout the window, so
\* a window that ends without a FAIL ends, at start + T + H, with every one
\* of them open; the others are not checked inside the window.
C23_Original ==
    [][/\ (pc = "boundary" /\ pc' = "expired") =>
            /\ now >= start_time + WS_TIMEOUT + WS_HEARTBEAT_INTERVAL
            /\ NotOpen(websockets_with_health) = {}
       /\ NotKeptAliveUnchecked]_vars

\* C23, amended: boundary phase.  The window is watched by polls one second
\* apart, the first at or after start + T - 1 and the last before
\* start + T + H: a poll that finds a kept-alive worker closed or failed
\* makes test_04 return FAIL naming its endpoint, and a worker that closes
\* after the last poll is not seen; the other workers are not checked by
\* any poll of the window.
C23_BoundaryPhase ==
    [][/\ (/\ pc = "boundary"
            /\ Test04Step
            /\ now < start_time + WS_TIMEOUT + WS_HEARTBEAT_INTERVAL
            /\ NotOpen(websockets_with_health) # {}) =>
                FailsNaming({"WebSocket connection (health cmd sent) to {} was closed too early"},
                            NotOpen(websockets_with_health))
       /\ (pc = "boundary" /\ pc' = "expired") =>
                now >= start_time + WS_TIMEOUT + WS_HEARTBEAT_INTERVAL
       /\ (pc = "boundary" /\ pc' = "boundary" /\ Test04Step) =>
                /\ NotOpen(websockets_with_health) = {}
                /\ now' = now + 1
       /\ (pc # "boundary" /\ pc' = "boundary") =>
                /\ pc = "pre_timeout"
                /\ now >= start_time + WS_TIMEOUT - 1
       /\ NotKeptAliveUnchecked]_vars

\* The window has ended without a FAIL, the kept-alive workers open at its
\* last poll and one of the other workers closed inside it.
C23_Witness ==
    /\ pc = "expired"
    /\ Len(connection_sources) = 2
    /\ now = start_time + WS_TIMEOUT + WS_HEARTBEAT_INTERVAL
    /\ websockets_no_health[1].state = "closed"
    /\ websockets_no_health[2].state = "open"
    /\ websockets_with_health[1].state = "open"
    /\ websockets_with_health[2].state = "closed"

\* The endpoints of the workers of the sequence that are open.
StillOpen(websockets) ==
    { websockets[i].id : i \in { j \in 1..Len(websockets) : websockets[j].state = "open" } }

\* test_04 returns PASS.
Passes ==
    /\ pc' = "done"
    /\ Len(result') = Len(result) + 1
    /\ Last(result') = PASS(TestCase("test_04"))

\* C24: confirmation phase.  At the end of the window, no earlier than
\* start + T + H, an open worker that was not sent the health command makes
\* test_04 return FAIL; the kept-alive workers are then polled while one is
\* open and start + T + 2H has not come, and one still open after that makes
\* test_04 return FAIL; test_04 returns PASS only with no worker of either
\* cohort open.
C24_ConfirmationPhase ==
    [][/\ (pc # "expired" /\ pc' = "expired") =>
            now >= start_time + WS_TIMEOUT + WS_HEARTBEAT_INTERVAL
       /\ (pc = "expired" /\ Test04Step) =>
            IF StillOpen(websockets_no_health) # {}
            THEN FailsNaming({"WebSocket connection (no health cmd sent) to {} was not closed after timeout"},
                             StillOpen(websockets_no_health))
            ELSE pc' = "confirm"
       /\ (pc = "confirm" /\ pc' = "confirm" /\ Test04Step) =>
            /\ now < start_time + WS_TIMEOUT + WS_HEARTBEAT_INTERVAL * 2
            /\ StillOpen(websockets_with_health) # {}
       /\ (pc = "confirm" /\ pc' # "confirm") =>
            /\ pc' = "confirmed"
            /\ \/ StillOpen(websockets_with_health) = {}
               \/ now >= start_time + WS_TIMEOUT + WS_HEARTBEAT_INTERVAL * 2
       /\ (pc = "confirmed" /\ Test04Step) =>
            IF StillOpen(websockets_with_health) # {}
            THEN FailsNaming({"WebSocket connection (health cmd sent) to {} was not closed after timeout"},
                             StillOpen(websockets_with_health))
            ELSE Passes
       /\ (InSession /\ Passes) =>
            /\ pc = "confirmed"
            /\ StillOpen(AllWorkers) = {}]_vars

\* test_04 has passed for two endpoints, every worker of both cohorts
\* closed, the kept-alive ones within the grace period.
C24_Witness ==
    /\ pc = "done"
    /\ Ran("test_04")
    /\ OutcomeOf("test_04") = PASS(TestCase("test_04"))
    /\ Len(connection_sources) = 2
    /\ StillOpen(AllWorkers) = {}
    /\ now >= start_time + WS_TIMEOUT + WS_HEARTBEAT_INTERVAL
    /\ now < start_time + WS_TIMEOUT + WS_HEARTBEAT_INTERVAL * 2

\* C25: once test_04 has produced its outcome, no worker it started is
\* still open.
C25_SessionsClosed ==
    (pc = "done" /\ Ran("test_04")) => StillOpen(AllWorkers) = {}

\* C26: test_04 ends with an outcome whatever the workers do: from its call
\* on, with a clock that advances, it returns; and while it runs the clock
\* never reads more than start + T + 2H.
C26_Terminates ==
    /\ [](InSession => now <= start_time + WS_TIMEOUT + WS_HEARTBEAT_INTERVAL * 2)
    /\ (pc = "test" /\ step = 4) ~> (pc = "done" /\ Ran("test_04"))

\* test_04 has returned FAIL at the end of the startup timeout with a
\* worker that never opened.
C26_Witness ==
    /\ pc = "done"
    /\ Ran("test_04")
    /\ OutcomeOf("test_04").state = "Fail"
    /\ \E i \in 1..Len(AllWorkers) : AllWorkers[i].state = "connecting"
    /\ now = start_time + WS_MESSAGE_TIMEOUT

\* What test_02 finds for the i-th source of the Events API.
Checked(i) == test_02_source(Self, TestCase("test_02"), is07_sources[i]["id"])

BrokerTopicWarnings ==
    { "does not follow the recommended convention in 'broker_topic'",
      "does not indicate the correct source in 'broker_topic'",
      "does not indicate the correct API version in 'broker_topic'" }

\* The sources of the Events API, checked by test_02, whose mqtt sender has
\* a broker_topic other than x-nmos/events/<version>/sources/<source id>.
OffConvention ==
    { i \in 1..Len(is07_sources) :
        /\ ~Checked(i).stop
        /\ LET sender == SendersOf(Self, is07_sources[i]["id"])[1] IN
           /\ sender["transport"] = MQTT
           /\ senders_active[sender["id"]]["transport_params"][1]["broker_topic"]
                 # Topic(EventsVersion, is07_sources[i]["id"]) }

\* C27: a broker_topic off the recommended convention is no FAIL of
\* test_02: the outcome is FAIL exactly when some source fails a check, and
\* it is then the FAIL of the first such source, whatever warning an earlier
\* source has set; it is WARNING, with the reference link, exactly when no
\* source fails and the topic of some source is off the convention; and it
\* is PASS exactly when neither is the case.
C27_WarningNeverBlocks ==
    (Ran("test_02") /\ Len(is07_sources) > 0) =>
        LET failing == { i \in 1..Len(is07_sources) : Checked(i).stop }
            outcome == OutcomeOf("test_02")
        IN /\ outcome.state \in {"Fail", "Warning", "Pass"}
           /\ outcome.state = "Fail" <=> failing # {}
           /\ failing # {} =>
                /\ outcome = Checked(CHOOSE i \in failing : \A j \in failing : i <= j).fail
                /\ outcome.detail.text \notin BrokerTopicWarnings
           /\ outcome.state = "Warning" <=> (failing = {} /\ OffConvention # {})
           /\ outcome.state = "Warning" =>
                /\ outcome.detail.text \in BrokerTopicWarnings
                /\ outcome.detail.about = "5.1._Transport_-_MQTT.html#32-broker_topic"
           /\ outcome.state = "Pass" <=> (failing = {} /\ OffConvention = {})

\* test_02 has returned the FAIL of the second source after the first set
\* a warning for its broker_topic.
C27_Witness ==
    /\ Ran("test_02")
    /\ Len(is07_sources) = 2
    /\ OutcomeOf("test_02").state = "Fail"
    /\ OutcomeOf("test_02").detail.about = is07_sources[2]["id"]
    /\ ~Checked(1).stop
    /\ OffConvention = {1}
    /\ Checked(2).stop

\* C28: check_api_resource changes the identifier cache only where the
\* request succeeded and the status code was the expected one, and the
\* change is the one save_subresources makes for the path and the response;
\* on NOT_APPLICABLE, on the exclusion of a multi-parameter path, on a
\* transport failure and on a status-code mismatch the cache is as it was;
\* and no step outside check_api_resource changes the cache.
C28_CacheWrittenOnSuccessOnly ==
    /\ [][(Crawling /\ saved_entities' # saved_entities)
          => /\ Requested
             /\ Last(requests').fault = "None"
             /\ Last(requests').status_code = 200
             /\ pc' = "validate"
             /\ HarvestOf(frame'.response.body, StripAll) # <<>>
             /\ saved_entities' =
                   Appended(saved_entities, Current.path,
                            HarvestOf(frame'.response.body, StripAll))]_vars
    /\ [][(Crawling /\ ret'.state = "Not Applicable")
          => saved_entities' = saved_entities]_vars
    /\ [][(Crawling /\ Kind(Current) = "multi")
          => saved_entities' = saved_entities]_vars
    /\ [][(Crawling /\ Requested /\ Last(requests').fault # "None")
          => saved_entities' = saved_entities]_vars
    /\ [][(Crawling /\ Requested /\ Last(requests').status_code # 200)
          => saved_entities' = saved_entities]_vars
    /\ [][~Crawling => saved_entities' = saved_entities]_vars

\* "/w/{i}" has met a transport failure after "/w" was harvested, and the
\* cache holds what the harvest left.
C28_Witness ==
    /\ pc = "returned"
    /\ Kind(Current) = "single"
    /\ ret.state = "Fail"
    /\ ret.detail = "str(e)"
    /\ DOMAIN saved_entities = {Widgets}
    /\ saved_entities[Widgets] = << <<"a">> >>

\* C29: the identifier cache is one map keyed by path template and shared
\* by the APIs of a test object.  With "/w" declared by API A and by API B:
\* after A's crawl of "/w" the entry "/w" is A's harvest; B's crawl of "/w"
\* appends to that same entry, so the id at its front stays in every step;
\* and B's "/w/{i}" is requested with the id at the front of the entry,
\* which is the first id harvested from A whenever A harvested one.
C29_SharedCache ==
    /\ [](DOMAIN saved_entities \subseteq
             UNION { { apis[a].resources[r].path : r \in 1..Len(apis[a].resources) } :
                       a \in 1..Len(apis) })
    /\ []((api = 1 /\ pc = "validate") =>
             saved_entities =
                IF HarvestOf(frame.response.body, StripAll) # <<>>
                THEN [k \in {Widgets} |-> HarvestOf(frame.response.body, StripAll)]
                ELSE [k \in {} |-> <<>>])
    /\ [][(Widgets \in DOMAIN saved_entities)
          => /\ Widgets \in DOMAIN saved_entities'
             /\ Head(saved_entities'[Widgets]) = Head(saved_entities[Widgets])]_vars
    /\ [][(Crawling /\ api = 2 /\ Current = RWidgets /\ pc' = "validate")
          => saved_entities' =
                IF HarvestOf(frame'.response.body, StripAll) # <<>>
                THEN Appended(saved_entities, Widgets,
                              HarvestOf(frame'.response.body, StripAll))
                ELSE saved_entities]_vars
    /\ [][(Crawling /\ api = 2 /\ Kind(Current) = "single"
             /\ Widgets \in DOMAIN saved_entities)
          => /\ Requested
             /\ Last(requests').api = <<"B">>
             /\ Last(requests').url = <<Root, W, Head(saved_entities[Widgets])>>]_vars

\* API B's "/w/{i}" was requested as "/w/a" with an entry that starts with
\* the "a" of API A and goes on with ids "b" of which API B's own response
\* gave at least the last.
C29_Witness ==
    /\ api = 2
    /\ pc = "validate"
    /\ Kind(Current) = "single"
    /\ Last(requests).url = <<Root, W, <<"a">>>>
    /\ Widgets \in DOMAIN saved_entities
    /\ Len(saved_entities[Widgets]) > MaxBody
    /\ Head(saved_entities[Widgets]) = <<"a">>
    /\ \A i \in 2..Len(saved_entities[Widgets]) : saved_entities[Widgets][i] = <<"b">>

\* The phases of test_04 in the order of its text: the open phase (the
\* wait and its check), the quiescent phase, the heartbeat phase (the
\* send, the wait for the replies, their check), the pre-timeout phase,
\* the boundary phase (the wait and the check at its end), and the
\* confirmation phase (the wait and its check).
PhaseOrder ==
    <<"open", "opened", "quiescent", "health", "wait", "replies", "pre_timeout",
      "boundary", "expired", "confirm", "confirmed">>

PhaseOf(at) == CHOOSE n \in 1..Len(PhaseOrder) : PhaseOrder[n] = at

\* The step sends a message on some session.
Sends ==
    \E i \in 1..Len(AllWorkers) :
        i > Len(AllWorkers') \/ AllWorkers'[i].sent # AllWorkers[i].sent

\* C30: in test_04 a message is sent only in the one step that follows the
\* quiescent phase; that step is taken when start + H has elapsed and no
\* outcome of test_04 exists, and it sends the health command once to each
\* kept-alive session and nothing to a not-kept-alive session; the
\* quiescent phase is entered only from the check that found every session
\* of both cohorts open; the phases follow each other in the order open,
\* quiescent, heartbeat, pre-timeout, boundary, confirmation, a phase is
\* left for the next one or by returning the outcome of test_04, an outcome
\* returned before the last check is no PASS, and test_04 does nothing
\* after it has returned.
C30_PhaseOrdering ==
    /\ [](InSession =>
            /\ \A i \in 1..Len(websockets_no_health) : websockets_no_health[i].sent = <<>>
            /\ \A i \in 1..Len(websockets_with_health) :
                  Len(websockets_with_health[i].sent) <= 1)
    /\ [][(InSession /\ Sends)
          => /\ pc = "health"
             /\ pc' = "wait"
             /\ now >= start_time + WS_HEARTBEAT_INTERVAL
             /\ ~Ran("test_04")
             /\ \A i \in 1..Len(websockets_with_health) :
                   /\ websockets_with_health[i].sent = <<>>
                   /\ websockets_with_health'[i].sent = <<health_command'>>]_vars
    /\ [][(pc # "quiescent" /\ pc' = "quiescent")
          => /\ pc = "opened"
             /\ \A i \in 1..Len(AllWorkers) : AllWorkers[i].state = "open"]_vars
    /\ [][(InSession /\ pc' # pc)
          => \/ /\ InSession'
                /\ PhaseOf(pc') = PhaseOf(pc) + 1
                /\ result' = result
             \/ /\ pc' = "done"
                /\ Len(result') = Len(result) + 1
                /\ Last(result').name = TestCase("test_04")
                /\ pc # "confirmed" => Last(result').state = "Fail"]_vars
    /\ [][Ran("test_04") => ~InSession']_vars

\* test_04 has gone through every phase, with two endpoints: each
\* kept-alive session was sent the health command once, after start + H,
\* and no not-kept-alive session was sent anything.
C30_Witness ==
    /\ pc = "confirmed"
    /\ Len(connection_sources) = 2
    /\ health_command.timestamp >= start_time + WS_HEARTBEAT_INTERVAL
    /\ \A i \in 1..2 :
          /\ websockets_with_health[i].sent = <<health_command>>
          /\ websockets_no_health[i].sent = <<>>

\* test_04 is about to be called.
Discovering == pc = "test" /\ step = 4

\* The sender is reached by the join event source -> flow -> sender, uses
\* the websocket transport and has active parameters.
Discoverable(sender_id) ==
    /\ sender_id \in DOMAIN senders_active
    /\ \E i \in 1..Len(senders_to_test), j \in 1..Len(is07_sources) :
          LET sender == senders_to_test[i]
              source_id == is07_sources[j]["id"]
          IN /\ sender["id"] = sender_id
             /\ source_id \in Keys(sources_to_test)
             /\ sender["flow_id"] \in Keys(is04_flows)
             /\ Lookup(is04_flows, sender["flow_id"])["source_id"] = source_id
             /\ "transport" \in DOMAIN sender
             /\ sender["transport"] = WS

\* What get_websocket_connection_sources does when test_04 calls it.
Discovery == get_websocket_connection_sources(Self, iut, TestCase("test_04"))

\* The senders an activation request was made for.
Activated == { Discovery.activations[i] : i \in 1..Len(Discovery.activations) }

\* The workers started by the step.
Started == websockets_no_health' \o websockets_with_health'

\* Every endpoint is the connection_uri of a discoverable sender.
DiscoveryJoin ==
    \A e \in Keys(connection_sources') :
        \E sender_id \in DOMAIN senders_active :
            /\ Discoverable(sender_id)
            /\ senders_active'[sender_id]["transport_params"][1]["connection_uri"] = e

\* An activation is requested only for a discoverable sender whose
\* master_enable is false.
DiscoveryWrites ==
    \A sender_id \in Activated :
        /\ Discoverable(sender_id)
        /\ senders_active[sender_id]["master_enable"] = "false"

\* A failed activation or a missing connection_uri makes test_04 end with
\* the FAIL, no worker started.
DiscoveryAbort ==
    Discovery.raised.exception = "NMOSTestException" =>
        /\ Discovery.raised.args.state = "Fail"
        /\ result' = Append(result, Discovery.raised.args)
        /\ Started = <<>>

\* One worker per cohort for every distinct connection_uri.
DiscoverySessions ==
    pc' = "open" =>
        LET uris == { senders_active'[s]["transport_params"][1]["connection_uri"] :
                        s \in { x \in DOMAIN senders_active : Discoverable(x) } }
        IN /\ uris # {}
           /\ Len(websockets_no_health') = Cardinality(uris)
           /\ Len(websockets_with_health') = Cardinality(uris)
           /\ { websockets_no_health'[i].id : i \in 1..Len(websockets_no_health') } = uris
           /\ { websockets_with_health'[i].id : i \in 1..Len(websockets_with_health') } = uris

\* With no endpoint the outcome is UNCLEAR and no worker is started.
DiscoveryUnclear ==
    (Discovery.raised.exception = "None" /\ Discovery.connection_sources = <<>>) =>
        /\ Len(result') = Len(result) + 1
        /\ Last(result').name = TestCase("test_04")
        /\ Last(result').state = "Could Not Test"
        /\ Started = <<>>

\* C31: endpoint discovery for test_04.  A sender contributes its
\* connection_uri only if it is reached by the join, uses the websocket
\* transport and has active parameters; an activation is requested only for
\* such a sender whose master_enable is false; a failed activation or a
\* missing connection_uri ends test_04 with FAIL before any session is
\* started; one session per cohort is created per distinct connection_uri;
\* and with no endpoint the outcome is UNCLEAR with no session started.
C31_EndpointDiscovery ==
    [][Discovering =>
          /\ DiscoveryJoin
          /\ DiscoveryWrites
          /\ DiscoveryAbort
          /\ DiscoverySessions
          /\ DiscoveryUnclear]_vars
====
